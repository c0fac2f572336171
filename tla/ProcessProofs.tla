---------------------------- MODULE ProcessProofs ----------------------------
(***************************************************************************)
(* Theorems about Process for any configuration, with any number of        *)
(* listeners, and any number of connections.                               *)
(***************************************************************************)
EXTENDS Process, SequenceTheorems, FiniteSetTheorems, TLAPS

Units == Nat \X {"udp", "tcp", "http", "acme", "admin"}
Items == [op : {"shutdown", "goWait", "goShutdown"}, unit : Units]

In(x, s) == \E j \in 1..Len(s) : s[j] = x

Wait(k)  == [op |-> "goWait", unit |-> <<0, k>>]
GoStop(u) == [op |-> "goShutdown", unit |-> u]

\* What main has still to do is in order: a proxy of the slices st is shut
\* down before the goroutine that waits for its kind is started.
InOrder(td, st) ==
    /\ td \in Seq(Items)
    /\ \A i \in 1..Len(td) :
          /\ td[i].op = "shutdown" =>
                /\ IsL4(td[i].unit) /\ In(td[i].unit, st[Kind(td[i].unit)])
                /\ \E j \in (i + 1)..Len(td) : td[j] = Wait(Kind(td[i].unit))
          /\ td[i].op = "goWait" => \E k \in {"udp", "tcp"} : td[i] = Wait(k)
          /\ td[i].op = "goShutdown" => ~IsL4(td[i].unit)

\* The slices of main.
SlicesOK(st) ==
    /\ st \in [Slices -> Seq(Units)]
    /\ \A k \in {"udp", "tcp"} : \A u \in Units : In(u, st[k]) => Kind(u) = k
    /\ \A k \in {"http", "admin"} : \A u \in Units : In(u, st[k]) => ~IsL4(u)

\* Before the shutdown begins nothing is being shut down.
NotStopping == main \in {"load", "listeners", "loop", "reload"}

\* The types of what the shutdown works on.  The WaitGroup counts at least the
\* goroutines that are running, so that it is 0 only when none is.
StopInv ==
    /\ next \in Nat /\ SlicesOK(started)
    /\ InOrder(todo, started)
    /\ \A t \in DOMAIN left : left[t] \in Seq(Units)
    /\ IsFiniteSet(DOMAIN left) /\ wg \in Int /\ Cardinality(DOMAIN left) <= wg
    /\ NotStopping => todo = <<>> /\ began = {} /\ DOMAIN left = {} /\ owed = {}
    /\ main = "returned" => todo = <<>> /\ DOMAIN left = {}

\* A server that is running is in its slice, one that is not a proxy accepts
\* nothing once its Shutdown was called, and only servers have connections.
ServerInv ==
    /\ \A u \in DOMAIN server :
          /\ u \in Units
          /\ ~IsL4(u) => In(u, started["http"]) \/ In(u, started["admin"])
          /\ ~IsL4(u) => server[u] # "closing"
          /\ ~IsL4(u) /\ u \in began => server[u] # "serving"
    /\ \A p \in open : p[1] \in DOMAIN server

\* What was open when its proxy was shut down is still open, and a goroutine
\* that waits for the proxy is running or will be started.
OwedInv ==
    \A p \in owed :
       /\ p \in open
       /\ IsL4(p[1]) =>
             /\ In(p[1], started[Kind(p[1])])
             /\ \/ In(Wait(Kind(p[1])), todo)
                \/ /\ <<0, Kind(p[1])>> \in DOMAIN left
                   /\ In(p[1], left[<<0, Kind(p[1])>>])

\* Once the shutdown has begun, an http.Server is going to be shut down, is being
\* shut down, or has been, with no request left unless the deadline has passed.
Settled(u) == u \in began /\ (deadline \/ ~\E p \in open : p[1] = u)

HttpInv ==
    main \in {"stop", "returned"} =>
       \A u \in DOMAIN server : ~IsL4(u) =>
          \/ In(GoStop(u), todo)
          \/ u \in DOMAIN left /\ left[u] = <<u>>
          \/ Settled(u)

-----------------------------------------------------------------------------
(* Sequences. *)

(* What is in a sequence is its head or in its tail. *)
LEMMA InTail ==
    ASSUME NEW S, NEW s \in Seq(S), s # <<>>, NEW x, In(x, s)
    PROVE  x = Head(s) \/ In(x, Tail(s))
<1>1. PICK j \in 1..Len(s) : s[j] = x
  BY DEF In
<1>2. CASE j = 1
  BY <1>1, <1>2
<1>3. CASE j # 1
  <2>1. j - 1 \in 1..Len(Tail(s)) /\ Tail(s)[j - 1] = s[j]
    BY <1>3
  <2>. QED BY <1>1, <2>1 DEF In
<1>. QED BY <1>2, <1>3

(* What is in either of two sequences is in their concatenation. *)
LEMMA InConcat ==
    ASSUME NEW S, NEW s \in Seq(S), NEW t \in Seq(S), NEW x
    PROVE  In(x, s \o t) <=> In(x, s) \/ In(x, t)
<1>0. /\ Len(s) \in Nat /\ Len(t) \in Nat /\ Len(s \o t) = Len(s) + Len(t)
      /\ \A j \in 1..Len(s) : (s \o t)[j] = s[j]
      /\ \A j \in 1..Len(t) : (s \o t)[Len(s) + j] = t[j]
  OBVIOUS
<1>1. ASSUME In(x, s) PROVE In(x, s \o t)
  <2>1. PICK j \in 1..Len(s) : s[j] = x
    BY <1>1 DEF In
  <2>2. j \in 1..Len(s \o t) /\ (s \o t)[j] = x
    BY <1>0, <2>1
  <2>. QED BY <2>2 DEF In
<1>2. ASSUME In(x, t) PROVE In(x, s \o t)
  <2>1. PICK j \in 1..Len(t) : t[j] = x
    BY <1>2 DEF In
  <2>2. Len(s) + j \in 1..Len(s \o t) /\ (s \o t)[Len(s) + j] = x
    BY <1>0, <2>1
  <2>. QED BY <2>2 DEF In
<1>3. ASSUME In(x, s \o t) PROVE In(x, s) \/ In(x, t)
  <2>1. PICK j \in 1..Len(s \o t) : (s \o t)[j] = x
    BY <1>3 DEF In
  <2>2. CASE j \in 1..Len(s)
    BY <1>0, <2>1, <2>2 DEF In
  <2>3. CASE j \notin 1..Len(s)
    <3>1. PICK i \in 1..Len(t) : j = Len(s) + i
      <4>1. j - Len(s) \in 1..Len(t) /\ j = Len(s) + (j - Len(s))
        BY <1>0, <2>3
      <4>. QED BY <4>1
    <3>2. t[i] = x
      BY <1>0, <2>1, <3>1
    <3>. QED BY <3>2 DEF In
  <2>. QED BY <2>2, <2>3
<1>. QED BY <1>1, <1>2, <1>3

(* The statements for the members of a slice. *)
LEMMA TodoOK ==
    ASSUME NEW us \in Seq(Units), NEW op \in {"shutdown", "goWait", "goShutdown"},
           NEW t, t = Todo(op, us)
    PROVE  /\ t \in Seq(Items) /\ Len(t) = Len(us)
           /\ \A i \in 1..Len(us) : t[i] = [op |-> op, unit |-> us[i]]
<1>1. Len(us) \in Nat /\ DOMAIN us = 1..Len(us)
  OBVIOUS
<1>2. t = [i \in 1..Len(us) |-> [op |-> op, unit |-> us[i]]]
  BY <1>1 DEF Todo
<1>3. \A i \in 1..Len(us) : [op |-> op, unit |-> us[i]] \in Items
  BY DEF Items
<1>4. t \in [1..Len(us) -> Items]
  BY <1>2, <1>3
<1>5. t \in Seq(Items) /\ Len(t) = Len(us)
  BY <1>1, <1>4
<1>. QED BY <1>2, <1>5

(* The shutdown of the proxies of one kind. *)
LEMMA ProxiesInOrder ==
    ASSUME NEW st, SlicesOK(st), NEW k \in {"udp", "tcp"}, NEW s, InOrder(s, st)
    PROVE  InOrder(s \o Todo("shutdown", st[k]) \o Todo("goWait", <<<<0, k>>>>), st)
<1>. DEFINE us == st[k]
            w  == <<<<0, k>>>>
<1>1. us \in Seq(Units) /\ w \in Seq(Units) /\ Len(w) = 1 /\ w[1] = <<0, k>>
  BY DEF SlicesOK, Units, Slices
<1>2. PICK a : a = Todo("shutdown", us)
  OBVIOUS
<1>3. PICK b : b = Todo("goWait", w)
  OBVIOUS
<1>4. /\ a \in Seq(Items) /\ Len(a) = Len(us)
      /\ \A i \in 1..Len(us) : a[i] = [op |-> "shutdown", unit |-> us[i]]
  BY <1>1, <1>2, TodoOK
<1>5. b \in Seq(Items) /\ Len(b) = 1 /\ b[1] = Wait(k)
  <2>1. Len(b) = Len(w) /\ b \in Seq(Items) /\ \A i \in 1..Len(w) : b[i] = [op |-> "goWait", unit |-> w[i]]
    BY <1>1, <1>3, TodoOK
  <2>. QED BY <1>1, <2>1 DEF Wait
<1>6. s \in Seq(Items)
  BY DEF InOrder
<1>7. PICK t : t = s \o a \o b
  OBVIOUS
<1>8. /\ t \in Seq(Items) /\ Len(s) \in Nat /\ Len(a) \in Nat /\ Len(t) = Len(s) + Len(a) + 1
      /\ \A i \in 1..Len(s) : t[i] = s[i]
      /\ \A i \in 1..Len(a) : t[Len(s) + i] = a[i]
      /\ t[Len(t)] = Wait(k)
  <2>1. PICK q : q = s \o a
    OBVIOUS
  <2>2. /\ q \in Seq(Items) /\ Len(s) \in Nat /\ Len(a) \in Nat /\ Len(q) = Len(s) + Len(a)
        /\ \A j \in 1..Len(s) : q[j] = s[j]
        /\ \A j \in 1..Len(a) : q[Len(s) + j] = a[j]
    <3>1. a \in Seq(Items)
      BY <1>4
    <3>. QED BY <1>6, <2>1, <3>1
  <2>3. /\ t \in Seq(Items) /\ Len(q) \in Nat /\ Len(b) \in Nat /\ Len(t) = Len(q) + Len(b)
        /\ \A j \in 1..Len(q) : t[j] = q[j]
        /\ \A j \in 1..Len(b) : t[Len(q) + j] = b[j]
    <3>1. t = q \o b
      BY <1>7, <2>1
    <3>2. q \in Seq(Items) /\ b \in Seq(Items)
      BY <1>5, <2>2
    <3>. QED BY <3>1, <3>2
  <2>4. t[Len(t)] = Wait(k)
    BY <1>5, <2>3
  <2>5. \A i \in 1..Len(s) : i \in 1..Len(q)
    BY <2>2
  <2>6. \A i \in 1..Len(a) : Len(s) + i \in 1..Len(q)
    BY <2>2
  <2>7. \A i \in 1..Len(s) : t[i] = s[i]
    BY <2>2, <2>3, <2>5
  <2>8. \A i \in 1..Len(a) : t[Len(s) + i] = a[i]
    BY <2>2, <2>3, <2>6
  <2>9. Len(t) = Len(s) + Len(a) + 1
    BY <1>5, <2>2, <2>3
  <2>. QED BY <2>2, <2>3, <2>4, <2>7, <2>8, <2>9
<1>9. ASSUME NEW i \in 1..Len(t)
      PROVE  /\ t[i].op = "shutdown" =>
                /\ IsL4(t[i].unit) /\ In(t[i].unit, st[Kind(t[i].unit)])
                /\ \E j \in (i + 1)..Len(t) : t[j] = Wait(Kind(t[i].unit))
             /\ t[i].op = "goWait" => \E q \in {"udp", "tcp"} : t[i] = Wait(q)
             /\ t[i].op = "goShutdown" => ~IsL4(t[i].unit)
  <2>1. CASE i \in 1..Len(s)
    <3>1. t[i] = s[i]
      BY <1>8, <2>1
    <3>2. /\ s[i].op = "shutdown" =>
             /\ IsL4(s[i].unit) /\ In(s[i].unit, st[Kind(s[i].unit)])
             /\ \E j \in (i + 1)..Len(s) : s[j] = Wait(Kind(s[i].unit))
          /\ s[i].op = "goWait" => \E q \in {"udp", "tcp"} : s[i] = Wait(q)
          /\ s[i].op = "goShutdown" => ~IsL4(s[i].unit)
      BY <2>1 DEF InOrder
    <3>3. ASSUME NEW x, \E j \in (i + 1)..Len(s) : s[j] = x
          PROVE  \E j \in (i + 1)..Len(t) : t[j] = x
      <4>1. PICK j \in (i + 1)..Len(s) : s[j] = x
        BY <3>3
      <4>2. j \in 1..Len(s) /\ j \in (i + 1)..Len(t)
        BY <1>8, <2>1
      <4>. QED BY <1>8, <4>1, <4>2
    <3>. QED BY <3>1, <3>2, <3>3
  <2>2. CASE i \notin 1..Len(s) /\ i # Len(t)
    <3>1. PICK j \in 1..Len(a) : i = Len(s) + j
      <4>1. i - Len(s) \in 1..Len(a) /\ i = Len(s) + (i - Len(s))
        BY <1>8, <2>2
      <4>. QED BY <4>1
    <3>2. us[j] \in Units /\ t[i] = [op |-> "shutdown", unit |-> us[j]]
      BY <1>1, <1>4, <1>8, <3>1
    <3>3. t[i].op = "shutdown" /\ t[i].unit = us[j]
      BY <3>2
    <3>4. In(us[j], us)
      BY <1>4, <3>1 DEF In
    <3>5. Kind(us[j]) = k
      BY <3>2, <3>4 DEF SlicesOK
    <3>6. Len(t) \in (i + 1)..Len(t)
      <4>1. Len(t) \in Nat
        BY <1>8
      <4>. QED BY <2>2, <4>1
    <3>. QED BY <1>8, <3>3, <3>4, <3>5, <3>6 DEF IsL4
  <2>3. CASE i = Len(t)
    <3>1. t[i] = Wait(k) /\ t[i].op = "goWait"
      BY <1>8, <2>3 DEF Wait
    <3>. QED BY <3>1
  <2>. QED BY <2>1, <2>2, <2>3
<1>10. InOrder(t, st)
  BY <1>8, <1>9 DEF InOrder
<1>. QED BY <1>2, <1>3, <1>7, <1>10

(* The shutdown of the servers of a slice. *)
LEMMA ServersInOrder ==
    ASSUME NEW st, SlicesOK(st), NEW k \in {"http", "admin"}, NEW s, InOrder(s, st)
    PROVE  InOrder(s \o Todo("goShutdown", st[k]), st)
<1>. DEFINE us == st[k]
<1>1. us \in Seq(Units)
  BY DEF SlicesOK, Slices
<1>2. PICK a : a = Todo("goShutdown", us)
  OBVIOUS
<1>4. /\ a \in Seq(Items) /\ Len(a) = Len(us)
      /\ \A i \in 1..Len(us) : a[i] = [op |-> "goShutdown", unit |-> us[i]]
  BY <1>1, <1>2, TodoOK
<1>6. s \in Seq(Items)
  BY DEF InOrder
<1>7. PICK t : t = s \o a
  OBVIOUS
<1>8. /\ t \in Seq(Items) /\ Len(s) \in Nat /\ Len(a) \in Nat /\ Len(t) = Len(s) + Len(a)
      /\ \A i \in 1..Len(s) : t[i] = s[i]
      /\ \A i \in 1..Len(a) : t[Len(s) + i] = a[i]
  <2>1. a \in Seq(Items)
    BY <1>4
  <2>. QED BY <1>6, <1>7, <2>1
<1>9. ASSUME NEW i \in 1..Len(t)
      PROVE  /\ t[i].op = "shutdown" =>
                /\ IsL4(t[i].unit) /\ In(t[i].unit, st[Kind(t[i].unit)])
                /\ \E j \in (i + 1)..Len(t) : t[j] = Wait(Kind(t[i].unit))
             /\ t[i].op = "goWait" => \E q \in {"udp", "tcp"} : t[i] = Wait(q)
             /\ t[i].op = "goShutdown" => ~IsL4(t[i].unit)
  <2>1. CASE i \in 1..Len(s)
    <3>1. t[i] = s[i]
      BY <1>8, <2>1
    <3>2. /\ s[i].op = "shutdown" =>
             /\ IsL4(s[i].unit) /\ In(s[i].unit, st[Kind(s[i].unit)])
             /\ \E j \in (i + 1)..Len(s) : s[j] = Wait(Kind(s[i].unit))
          /\ s[i].op = "goWait" => \E q \in {"udp", "tcp"} : s[i] = Wait(q)
          /\ s[i].op = "goShutdown" => ~IsL4(s[i].unit)
      BY <2>1 DEF InOrder
    <3>3. ASSUME NEW x, \E j \in (i + 1)..Len(s) : s[j] = x
          PROVE  \E j \in (i + 1)..Len(t) : t[j] = x
      <4>1. PICK j \in (i + 1)..Len(s) : s[j] = x
        BY <3>3
      <4>2. j \in 1..Len(s) /\ j \in (i + 1)..Len(t)
        BY <1>8, <2>1
      <4>. QED BY <1>8, <4>1, <4>2
    <3>. QED BY <3>1, <3>2, <3>3
  <2>2. CASE i \notin 1..Len(s)
    <3>1. PICK j \in 1..Len(a) : i = Len(s) + j
      <4>1. i - Len(s) \in 1..Len(a) /\ i = Len(s) + (i - Len(s))
        BY <1>8, <2>2
      <4>. QED BY <4>1
    <3>2. us[j] \in Units /\ t[i] = [op |-> "goShutdown", unit |-> us[j]]
      BY <1>1, <1>4, <1>8, <3>1
    <3>3. t[i].op = "goShutdown" /\ t[i].unit = us[j]
      BY <3>2
    <3>4. In(us[j], us)
      BY <1>4, <3>1 DEF In
    <3>5. ~IsL4(us[j])
      BY <3>2, <3>4 DEF SlicesOK
    <3>. QED BY <3>3, <3>5
  <2>. QED BY <2>1, <2>2
<1>10. InOrder(t, st)
  BY <1>8, <1>9 DEF InOrder
<1>. QED BY <1>2, <1>7, <1>10

(* The branch of main for SIGTERM is in order, and shuts every server down. *)
LEMMA ShutdownInOrder ==
    ASSUME SlicesOK(started), NEW td, td = Shutdown
    PROVE  /\ InOrder(td, started)
           /\ \A u \in Units : In(u, started["http"]) \/ In(u, started["admin"]) => In(GoStop(u), td)
<1>1. InOrder(<<>>, started)
  BY DEF InOrder
<1>2. PICK a : a = <<>> \o Todo("shutdown", started["udp"]) \o Todo("goWait", <<<<0, "udp">>>>)
  OBVIOUS
<1>3. InOrder(a, started)
  BY <1>1, <1>2, ProxiesInOrder
<1>4. PICK b : b = a \o Todo("shutdown", started["tcp"]) \o Todo("goWait", <<<<0, "tcp">>>>)
  OBVIOUS
<1>5. InOrder(b, started)
  BY <1>3, <1>4, ProxiesInOrder
<1>6. PICK c : c = b \o Todo("goShutdown", started["http"])
  OBVIOUS
<1>7. InOrder(c, started)
  BY <1>5, <1>6, ServersInOrder
<1>8. PICK d : d = c \o Todo("goShutdown", started["admin"])
  OBVIOUS
<1>9. InOrder(d, started)
  BY <1>7, <1>8, ServersInOrder
<1>10. td = d
  <2>1. \A us : us \in Seq(Units) => <<>> \o Todo("shutdown", us) = Todo("shutdown", us)
    <3>. TAKE us
    <3>. HAVE us \in Seq(Units)
    <3>1. Todo("shutdown", us) \in Seq(Items)
      BY TodoOK
    <3>. QED BY <3>1
  <2>2. started["udp"] \in Seq(Units)
    BY DEF SlicesOK, Slices
  <2>. QED BY <1>2, <1>4, <1>6, <1>8, <2>1, <2>2 DEF Shutdown
<1>11. ASSUME NEW u \in Units, NEW k \in {"http", "admin"}, In(u, started[k])
       PROVE  In(GoStop(u), Todo("goShutdown", started[k]))
  <2>1. started[k] \in Seq(Units)
    BY DEF SlicesOK, Slices
  <2>2. PICK t : t = Todo("goShutdown", started[k])
    OBVIOUS
  <2>3. Len(t) = Len(started[k])
        /\ \A i \in 1..Len(started[k]) : t[i] = [op |-> "goShutdown", unit |-> started[k][i]]
    BY <2>1, <2>2, TodoOK
  <2>4. PICK i \in 1..Len(started[k]) : started[k][i] = u
    BY <1>11 DEF In
  <2>5. t[i] = GoStop(u) /\ i \in 1..Len(t)
    BY <2>3, <2>4 DEF GoStop
  <2>. QED BY <2>2, <2>5 DEF In
<1>12. ASSUME NEW u \in Units, In(u, started["http"]) \/ In(u, started["admin"])
       PROVE  In(GoStop(u), d)
  <2>1. b \in Seq(Items) /\ c \in Seq(Items)
    BY <1>5, <1>7 DEF InOrder
  <2>2. /\ Todo("goShutdown", started["http"]) \in Seq(Items)
        /\ Todo("goShutdown", started["admin"]) \in Seq(Items)
    BY TodoOK DEF SlicesOK, Slices
  <2>3. CASE In(u, started["http"])
    <3>1. In(GoStop(u), Todo("goShutdown", started["http"]))
      BY <1>11, <2>3
    <3>2. In(GoStop(u), c)
      BY <1>6, <2>1, <2>2, <3>1, InConcat
    <3>. QED BY <1>8, <2>1, <2>2, <3>2, InConcat
  <2>4. CASE In(u, started["admin"])
    <3>1. In(GoStop(u), Todo("goShutdown", started["admin"]))
      BY <1>11, <2>4
    <3>. QED BY <1>8, <2>1, <2>2, <3>1, InConcat
  <2>. QED BY <1>12, <2>3, <2>4
<1>. QED BY <1>9, <1>10, <1>12

-----------------------------------------------------------------------------
(* The start. *)

\* The servers us may be appended to slice k.
Fits(k, us) ==
    /\ us \in Seq(Units)
    /\ \A u \in Units : In(u, us) =>
          (k \in {"udp", "tcp"} => Kind(u) = k) /\ (k \in {"http", "admin"} => ~IsL4(u))

(* What main starts fits its slice: a proxy the slice of its protocol, the
   servers of an HTTP listener and the admin server theirs. *)
LEMMA StartedFit ==
    ASSUME NEW n \in Nat
    PROVE  /\ \A k \in Slices : Fits(k, <<>>)
           /\ Fits("admin", <<<<0, "admin">>>>)
           /\ Fits("http", <<<<n, "http">>>>)
           /\ Fits("http", <<<<n, "http">>, <<n, "acme">>>>)
           /\ \A k \in {"udp", "tcp"} : Fits(k, <<<<n, k>>>>)
<1>1. \A k \in Slices : Fits(k, <<>>)
  BY DEF Fits, In
<1>2. Fits("admin", <<<<0, "admin">>>>)
  BY DEF Fits, In, Units, IsL4, Kind
<1>3. Fits("http", <<<<n, "http">>>>)
  BY DEF Fits, In, Units, IsL4, Kind
<1>4. Fits("http", <<<<n, "http">>, <<n, "acme">>>>)
  <2>. DEFINE us == <<<<n, "http">>, <<n, "acme">>>>
  <2>1. us \in Seq(Units) /\ Len(us) = 2 /\ us[1] = <<n, "http">> /\ us[2] = <<n, "acme">>
    BY DEF Units
  <2>2. \A u : In(u, us) => u = <<n, "http">> \/ u = <<n, "acme">>
    <3>1. \A j \in 1..2 : j = 1 \/ j = 2
      OBVIOUS
    <3>. QED BY <2>1, <3>1 DEF In
  <2>. QED BY <2>1, <2>2 DEF Fits, IsL4, Kind
<1>5. \A k \in {"udp", "tcp"} : Fits(k, <<<<n, k>>>>)
  BY DEF Fits, In, Units, IsL4, Kind
<1>. QED BY <1>1, <1>2, <1>3, <1>4, <1>5

Grown(st, k, us, st2) == st2 = [st EXCEPT ![k] = @ \o us]

(* Servers that fit a slice keep the slices apart. *)
LEMMA SlicesGrow ==
    ASSUME NEW st, SlicesOK(st), NEW k \in Slices, NEW us, Fits(k, us),
           NEW st2, Grown(st, k, us, st2)
    PROVE  /\ SlicesOK(st2)
           /\ \A j \in Slices : \A u : In(u, st2[j]) <=> In(u, st[j]) \/ (j = k /\ In(u, us))
<1>1. st \in [Slices -> Seq(Units)] /\ us \in Seq(Units) /\ st[k] \in Seq(Units)
  BY DEF SlicesOK, Fits
<1>2. PICK s \in Seq(Units) : s = st[k] \o us
  <2>1. PICK r \in Seq(Units) : r = st[k]
    BY <1>1, Zenon
  <2>2. r \o us \in Seq(Units)
    BY <1>1
  <2>. QED BY <2>1, <2>2, Zenon
<1>3. st2 = [st EXCEPT ![k] = s]
  BY <1>2 DEF Grown
<1>4. st2 \in [Slices -> Seq(Units)] /\ st2[k] = s /\ \A j \in Slices : j # k => st2[j] = st[j]
  BY <1>1, <1>2, <1>3
<1>5. \A u : In(u, s) <=> In(u, st[k]) \/ In(u, us)
  BY <1>1, <1>2, InConcat
<1>6. \A j \in Slices : \A u : In(u, st2[j]) <=> In(u, st[j]) \/ (j = k /\ In(u, us))
  <2>. TAKE j \in Slices
  <2>1. CASE j = k
    BY <1>4, <1>5, <2>1, Zenon
  <2>2. CASE j # k
    BY <1>4, <2>2, Zenon
  <2>. QED BY <2>1, <2>2
<1>7. \A j \in {"udp", "tcp"} : \A u \in Units : In(u, st2[j]) => Kind(u) = j
  BY <1>6 DEF SlicesOK, Fits, Slices
<1>8. \A j \in {"http", "admin"} : \A u \in Units : In(u, st2[j]) => ~IsL4(u)
  BY <1>6 DEF SlicesOK, Fits, Slices
<1>. QED BY <1>4, <1>6, <1>7, <1>8 DEF SlicesOK

(* Starting servers keeps the invariants of the slices and of the servers. *)
LEMMA StartStep ==
    ASSUME SlicesOK(started), ServerInv, began = {}, UNCHANGED <<open, began>>,
           NEW k \in Slices, NEW us, Fits(k, us), NEW s \in {"starting", "serving"},
           Start(k, us, s)
    PROVE  SlicesOK(started') /\ ServerInv'
<1>1. /\ SlicesOK(started')
      /\ \A j \in Slices : \A u : In(u, started'[j]) <=> In(u, started[j]) \/ (j = k /\ In(u, us))
  <2>1. PICK st : st = started
    OBVIOUS
  <2>2. PICK st2 : st2 = started'
    OBVIOUS
  <2>3. Grown(st, k, us, st2)
    BY <2>1, <2>2 DEF Start, Grown
  <2>4. SlicesOK(st)
    BY <2>1
  <2>5. /\ SlicesOK(st2)
        /\ \A j \in Slices : \A u : In(u, st2[j]) <=> In(u, st[j]) \/ (j = k /\ In(u, us))
    BY <2>3, <2>4, SlicesGrow, Zenon
  <2>. QED BY <2>1, <2>2, <2>5
<1>2. us \in Seq(Units)
  BY DEF Fits
<1>3. \A u : u \in ToSet(us) <=> In(u, us)
  BY <1>2 DEF ToSet, In
<1>4. \A u \in ToSet(us) : u \in Units
  BY <1>2 DEF ToSet
<1>5. /\ DOMAIN server' = ToSet(us) \cup DOMAIN server
      /\ \A u \in DOMAIN server' : server'[u] = IF u \in ToSet(us) THEN s ELSE server[u]
  BY DEF Start
<1>6. ASSUME NEW u \in DOMAIN server'
      PROVE  /\ u \in Units
             /\ ~IsL4(u) => In(u, started'["http"]) \/ In(u, started'["admin"])
             /\ ~IsL4(u) => server'[u] # "closing"
  <2>1. CASE u \in ToSet(us)
    <3>1. u \in Units /\ In(u, us) /\ server'[u] = s
      BY <1>3, <1>4, <1>5, <2>1
    <3>2. k \in {"udp", "tcp"} => IsL4(u)
      BY <3>1 DEF Fits, IsL4
    <3>3. k \in {"udp", "tcp", "http", "admin"}
      BY DEF Slices
    <3>. QED BY <1>1, <3>1, <3>2, <3>3 DEF Slices
  <2>2. CASE u \notin ToSet(us)
    <3>1. u \in DOMAIN server /\ server'[u] = server[u]
      BY <1>5, <2>2
    <3>. QED BY <1>1, <3>1 DEF ServerInv, Slices
  <2>. QED BY <2>1, <2>2
<1>7. \A p \in open' : p[1] \in DOMAIN server'
  BY <1>5 DEF ServerInv
<1>. QED BY <1>1, <1>6, <1>7 DEF ServerInv

-----------------------------------------------------------------------------
(* The shutdown. *)

(* After a statement of the shutdown the rest is in order; if the statement
   shuts a proxy down, the goroutine that waits for it is still to come. *)
LEMMA InOrderTail ==
    ASSUME NEW td, NEW st, InOrder(td, st), td # <<>>
    PROVE  /\ Head(td) \in Items /\ InOrder(Tail(td), st)
           /\ Head(td).op = "shutdown" =>
                 /\ IsL4(Head(td).unit) /\ In(Head(td).unit, st[Kind(Head(td).unit)])
                 /\ In(Wait(Kind(Head(td).unit)), Tail(td))
           /\ Head(td).op = "goWait" => \E k \in {"udp", "tcp"} : Head(td) = Wait(k)
           /\ Head(td).op = "goShutdown" => ~IsL4(Head(td).unit)
<1>1. td \in Seq(Items)
  BY DEF InOrder
<1>2. PICK tl : tl = Tail(td)
  OBVIOUS
<1>3. /\ Len(td) \in Nat \ {0} /\ Head(td) = td[1] /\ td[1] \in Items
      /\ tl \in Seq(Items) /\ Len(tl) = Len(td) - 1
      /\ \A i \in 1..Len(tl) : tl[i] = td[i + 1] /\ i + 1 \in 1..Len(td)
  BY <1>1, <1>2
<1>4. ASSUME NEW i \in 1..Len(td), NEW x, \E j \in (i + 1)..Len(td) : td[j] = x
      PROVE  \E j \in i..Len(tl) : tl[j] = x
  <2>1. PICK j \in (i + 1)..Len(td) : td[j] = x
    BY <1>4
  <2>2. j - 1 \in i..Len(tl) /\ j - 1 \in 1..Len(tl) /\ (j - 1) + 1 = j
    BY <1>3
  <2>3. tl[j - 1] = x
    BY <1>3, <2>1, <2>2
  <2>. QED BY <2>2, <2>3
<1>5. ASSUME NEW i \in 1..Len(tl)
      PROVE  /\ tl[i].op = "shutdown" =>
                /\ IsL4(tl[i].unit) /\ In(tl[i].unit, st[Kind(tl[i].unit)])
                /\ \E j \in (i + 1)..Len(tl) : tl[j] = Wait(Kind(tl[i].unit))
             /\ tl[i].op = "goWait" => \E k \in {"udp", "tcp"} : tl[i] = Wait(k)
             /\ tl[i].op = "goShutdown" => ~IsL4(tl[i].unit)
  <2>1. PICK n \in 1..Len(td) : n = i + 1 /\ tl[i] = td[n]
    BY <1>3
  <2>2. /\ td[n].op = "shutdown" =>
             /\ IsL4(td[n].unit) /\ In(td[n].unit, st[Kind(td[n].unit)])
             /\ \E j \in (n + 1)..Len(td) : td[j] = Wait(Kind(td[n].unit))
        /\ td[n].op = "goWait" => \E k \in {"udp", "tcp"} : td[n] = Wait(k)
        /\ td[n].op = "goShutdown" => ~IsL4(td[n].unit)
    BY DEF InOrder
  <2>3. td[n].op = "shutdown" => \E j \in n..Len(tl) : tl[j] = Wait(Kind(td[n].unit))
    BY <1>4, <2>2
  <2>. QED BY <2>1, <2>2, <2>3
<1>6. InOrder(tl, st)
  BY <1>3, <1>5 DEF InOrder
<1>7. PICK one \in 1..Len(td) : one = 1
  BY <1>3
<1>8. /\ td[one].op = "shutdown" =>
           /\ IsL4(td[one].unit) /\ In(td[one].unit, st[Kind(td[one].unit)])
           /\ \E j \in (one + 1)..Len(td) : td[j] = Wait(Kind(td[one].unit))
      /\ td[one].op = "goWait" => \E k \in {"udp", "tcp"} : td[one] = Wait(k)
      /\ td[one].op = "goShutdown" => ~IsL4(td[one].unit)
  BY DEF InOrder
<1>9. td[one].op = "shutdown" => \E j \in one..Len(tl) : tl[j] = Wait(Kind(td[one].unit))
  BY <1>4, <1>8
<1>10. td[one].op = "shutdown" => In(Wait(Kind(td[one].unit)), tl)
  BY <1>7, <1>9 DEF In
<1>11. Head(td) = td[one]
  BY <1>3, <1>7
<1>. QED BY <1>2, <1>3, <1>6, <1>8, <1>10, <1>11

(* A goroutine more, which wg.Add(1) counts. *)
LEMMA GoCounted ==
    ASSUME StopInv, NEW u, NEW us \in Seq(Units), Go(u, us)
    PROVE  /\ DOMAIN left' = DOMAIN left \cup {u}
           /\ \A t \in DOMAIN left' : left'[t] = IF t = u THEN us ELSE left[t]
           /\ \A t \in DOMAIN left' : left'[t] \in Seq(Units)
           /\ IsFiniteSet(DOMAIN left') /\ wg' \in Int /\ Cardinality(DOMAIN left') <= wg'
<1>1. /\ DOMAIN left' = DOMAIN left \cup {u}
      /\ \A t \in DOMAIN left' : left'[t] = IF t = u THEN us ELSE left[t]
  BY DEF Go, WithGoroutine
<1>2. \A t \in DOMAIN left' : left'[t] \in Seq(Units)
  BY <1>1 DEF StopInv
<1>3. PICK D : D = DOMAIN left
  OBVIOUS
<1>4. IsFiniteSet(D) /\ wg \in Int /\ Cardinality(D) <= wg /\ wg' = wg + 1
  BY <1>3 DEF StopInv, Go
<1>5. /\ IsFiniteSet(D \cup {u})
      /\ Cardinality(D \cup {u}) = IF u \in D THEN Cardinality(D) ELSE Cardinality(D) + 1
  BY <1>4, FS_AddElement
<1>6. Cardinality(D) \in Nat
  BY <1>4, FS_CardinalityType
<1>7. wg' \in Int /\ Cardinality(D \cup {u}) <= wg'
  BY <1>4, <1>5, <1>6
<1>. QED BY <1>1, <1>2, <1>3, <1>5, <1>7

(* A goroutine less, which wg.Done() uncounts. *)
LEMMA DoneCounted ==
    ASSUME StopInv, NEW u \in DOMAIN left, Done(u)
    PROVE  /\ DOMAIN left' = DOMAIN left \ {u}
           /\ \A t \in DOMAIN left' : left'[t] = left[t]
           /\ \A t \in DOMAIN left' : left'[t] \in Seq(Units)
           /\ IsFiniteSet(DOMAIN left') /\ wg' \in Int /\ Cardinality(DOMAIN left') <= wg'
<1>1. /\ DOMAIN left' = DOMAIN left \ {u}
      /\ \A t \in DOMAIN left' : left'[t] = left[t]
  BY DEF Done
<1>2. \A t \in DOMAIN left' : left'[t] \in Seq(Units)
  BY <1>1 DEF StopInv
<1>3. PICK D : D = DOMAIN left
  OBVIOUS
<1>4. IsFiniteSet(D) /\ u \in D /\ wg \in Int /\ Cardinality(D) <= wg /\ wg' = wg - 1
  BY <1>3 DEF StopInv, Done
<1>5. IsFiniteSet(D \ {u}) /\ Cardinality(D \ {u}) = Cardinality(D) - 1
  BY <1>4, FS_RemoveElement
<1>6. Cardinality(D) \in Nat
  BY <1>4, FS_CardinalityType
<1>7. wg' \in Int /\ Cardinality(D \ {u}) <= wg'
  BY <1>4, <1>5, <1>6
<1>. QED BY <1>1, <1>2, <1>3, <1>5, <1>7

(* The statements of the shutdown, with what Stop does for each. *)
LEMMA StopCases ==
    ASSUME StopInv, Stop
    PROVE  /\ main = "stop" /\ main' = main /\ InOrder(todo, started) /\ todo # <<>>
           /\ todo' = Tail(todo) /\ InOrder(todo', started)
           /\ UNCHANGED <<startVars, open, queue, deadline, term>>
           /\ \/ \E u \in Units :
                    /\ IsL4(u) /\ In(u, started[Kind(u)]) /\ In(Wait(Kind(u)), todo')
                    /\ Head(todo) = [op |-> "shutdown", unit |-> u]
                    /\ Begin(u) /\ UNCHANGED <<left, wg>>
              \/ \E k \in {"udp", "tcp"} :
                    /\ Head(todo) = Wait(k)
                    /\ Go(<<0, k>>, started[k]) /\ UNCHANGED <<began, server, owed>>
              \/ \E u \in Units :
                    /\ ~IsL4(u) /\ Head(todo) = GoStop(u)
                    /\ Go(u, <<u>>) /\ UNCHANGED <<began, server, owed>>
<1>1. /\ main = "stop" /\ main' = main /\ InOrder(todo, started) /\ todo # <<>>
      /\ todo' = Tail(todo)
      /\ UNCHANGED <<startVars, open, queue, deadline, term>>
  BY DEF Stop, StopInv
<1>2. PICK h : h = Head(todo)
  OBVIOUS
<1>3. /\ h \in Items /\ InOrder(todo', started)
      /\ h.op = "shutdown" =>
            /\ IsL4(h.unit) /\ In(h.unit, started[Kind(h.unit)])
            /\ In(Wait(Kind(h.unit)), todo')
      /\ h.op = "goWait" => \E k \in {"udp", "tcp"} : h = Wait(k)
      /\ h.op = "goShutdown" => ~IsL4(h.unit)
  BY <1>1, <1>2, InOrderTail
<1>4. PICK u \in Units : u = h.unit
  BY <1>3 DEF Items
<1>5. h = [op |-> h.op, unit |-> u]
  BY <1>3, <1>4 DEF Items
<1>6. \/ h.op = "shutdown" /\ Begin(u) /\ UNCHANGED <<left, wg>>
      \/ h.op = "goWait" /\ Go(u, started[Kind(u)]) /\ UNCHANGED <<began, server, owed>>
      \/ h.op = "goShutdown" /\ Go(u, <<u>>) /\ UNCHANGED <<began, server, owed>>
  BY <1>2, <1>4 DEF Stop
<1>7. CASE h.op = "shutdown" /\ Begin(u) /\ UNCHANGED <<left, wg>>
  BY <1>1, <1>2, <1>3, <1>4, <1>5, <1>7
<1>8. CASE h.op = "goWait" /\ Go(u, started[Kind(u)]) /\ UNCHANGED <<began, server, owed>>
  <2>1. PICK k \in {"udp", "tcp"} : h = Wait(k)
    BY <1>3, <1>8
  <2>2. u = <<0, k>> /\ Kind(u) = k
    BY <1>4, <2>1 DEF Wait, Kind
  <2>. QED BY <1>1, <1>2, <1>3, <1>8, <2>1, <2>2
<1>9. CASE h.op = "goShutdown" /\ Go(u, <<u>>) /\ UNCHANGED <<began, server, owed>>
  <2>1. h = GoStop(u)
    BY <1>5, <1>9 DEF GoStop
  <2>. QED BY <1>1, <1>2, <1>3, <1>4, <1>9, <2>1
<1>. QED BY <1>6, <1>7, <1>8, <1>9

(* Every step keeps the types of the shutdown, and the WaitGroup above the
   number of goroutines. *)
LEMMA StopInvStep == StopInv /\ ServerInv /\ [Next]_vars => StopInv'
<1>. SUFFICES ASSUME StopInv, ServerInv, [Next]_vars PROVE StopInv'
  OBVIOUS
<1>. DEFINE Same == /\ UNCHANGED <<next, started, todo, left, wg, began, owed>>
                    /\ NotStopping' => NotStopping
                    /\ main' = "returned" => main = "returned"
<1>0. CASE Same
  BY <1>0 DEF StopInv, InOrder, SlicesOK, NotStopping
<1>1. CASE Load \/ StartListener
  <2>1. /\ NotStopping /\ main' # "returned"
        /\ UNCHANGED <<open, began, todo, left, wg, owed>>
    BY <1>1 DEF Load, StartListener, NotStopping, stopVars, history
  <2>2. /\ todo = <<>> /\ began = {} /\ DOMAIN left = {} /\ owed = {}
    BY <2>1 DEF StopInv
  <2>3. next' \in Nat
    BY <1>1 DEF Load, StartListener, StopInv
  <2>4. SlicesOK(started')
    <3>1. CASE UNCHANGED started
      BY <3>1 DEF StopInv
    <3>2. CASE \E k \in Slices : \E us : \E s \in {"starting", "serving"} : Fits(k, us) /\ Start(k, us, s)
      BY <2>1, <2>2, <3>2, StartStep DEF StopInv
    <3>3. CASE Load
      BY <3>1, <3>2, <3>3, StartedFit DEF Load, Slices
    <3>4. CASE StartListener
      BY <3>1, <3>2, <3>4, StartedFit DEF StartListener, Slices, StopInv
    <3>. QED BY <1>1, <3>3, <3>4
  <2>5. InOrder(todo', started')
    BY <2>1, <2>2 DEF InOrder
  <2>. QED BY <2>1, <2>2, <2>3, <2>4, <2>5 DEF StopInv
<1>2. CASE Notify \/ Reload
  BY <1>0, <1>2 DEF Notify, Reload, startVars, stopVars, history, NotStopping
<1>3. CASE Receive
  <2>1. CASE main' = "stop" /\ todo' = Shutdown
    <3>1. InOrder(todo', started)
      BY <2>1, ShutdownInOrder DEF StopInv
    <3>. QED BY <1>3, <2>1, <3>1 DEF Receive, StopInv, startVars, history, NotStopping
  <2>2. CASE main' = "reload" /\ UNCHANGED todo
    BY <1>0, <1>3, <2>2 DEF Receive, startVars, history, NotStopping
  <2>. QED BY <1>3, <2>1, <2>2 DEF Receive
<1>4. CASE Stop
  <2>1. /\ main' = "stop" /\ InOrder(todo', started) /\ UNCHANGED <<next, started>>
    BY <1>4, StopCases DEF startVars
  <2>2. /\ \A t \in DOMAIN left' : left'[t] \in Seq(Units)
        /\ IsFiniteSet(DOMAIN left') /\ wg' \in Int /\ Cardinality(DOMAIN left') <= wg'
    <3>1. CASE UNCHANGED <<left, wg>>
      BY <3>1 DEF StopInv
    <3>2. CASE \E u : \E us \in Seq(Units) : Go(u, us)
      BY <3>2, GoCounted
    <3>3. \A k \in {"udp", "tcp"} : started[k] \in Seq(Units)
      BY DEF StopInv, SlicesOK, Slices
    <3>4. \A u \in Units : <<u>> \in Seq(Units)
      OBVIOUS
    <3>5. UNCHANGED <<left, wg>> \/ \E u : \E us \in Seq(Units) : Go(u, us)
      BY <1>4, <3>3, <3>4, StopCases
    <3>. QED BY <3>1, <3>2, <3>5
  <2>. QED BY <2>1, <2>2 DEF StopInv, NotStopping
<1>5. CASE Return
  <2>1. Cardinality(DOMAIN left) = 0
    BY <1>5, FS_CardinalityType DEF Return, StopInv
  <2>2. DOMAIN left = {}
    BY <2>1, FS_EmptySet DEF StopInv
  <2>. QED BY <1>5, <2>2 DEF Return, StopInv, startVars, stopVars, history, NotStopping, SlicesOK, InOrder
<1>6. CASE Running /\ \E t \in DOMAIN left : ServerShutdown(t)
  <2>1. ~NotStopping /\ main # "returned"
    BY <1>6 DEF StopInv, Running, Ended
  <2>. QED BY <1>6, <2>1 DEF ServerShutdown, StopInv, startVars, NotStopping, SlicesOK, InOrder
<1>7. CASE Running /\ \E t \in DOMAIN left : WaitReturns(t)
  <2>1. ~NotStopping /\ main # "returned"
    BY <1>7 DEF StopInv, Running, Ended
  <2>2. PICK t \in DOMAIN left : WaitReturns(t)
    BY <1>7
  <2>3. /\ DOMAIN left' = DOMAIN left
        /\ \A s \in DOMAIN left : left'[s] = IF s = t THEN Tail(left[t]) ELSE left[s]
    BY <2>2 DEF WaitReturns
  <2>4. Tail(left[t]) \in Seq(Units)
    BY <2>2 DEF StopInv, WaitReturns
  <2>5. UNCHANGED <<next, started, todo, wg, main>>
    BY <2>2 DEF WaitReturns, startVars
  <2>. QED BY <2>1, <2>3, <2>4, <2>5 DEF StopInv, NotStopping, SlicesOK, InOrder
<1>8. CASE Running /\ \E t \in DOMAIN left : Done(t)
  <2>1. ~NotStopping /\ main # "returned"
    BY <1>8 DEF StopInv, Running, Ended
  <2>2. /\ \A t \in DOMAIN left' : left'[t] \in Seq(Units)
        /\ IsFiniteSet(DOMAIN left') /\ wg' \in Int /\ Cardinality(DOMAIN left') <= wg'
    BY <1>8, DoneCounted
  <2>3. UNCHANGED <<next, started, todo, main>>
    BY <1>8 DEF Done, startVars
  <2>. QED BY <2>1, <2>2, <2>3 DEF StopInv, NotStopping, SlicesOK, InOrder
<1>9. CASE Servers
  BY <1>0, <1>9 DEF Servers, Listen, RunReturns, startVars, stopVars, history, NotStopping
<1>10. CASE Timeout
  BY <1>0, <1>10 DEF Timeout, Expire, startVars, stopVars, history, NotStopping
<1>11. CASE \E u, c : Close(u, c)
  BY <1>11 DEF Close, StopInv, startVars, stopVars, NotStopping, SlicesOK, InOrder
<1>12. CASE \E u, c : Open(u, c)
  BY <1>0, <1>12 DEF Open, startVars, stopVars, history, NotStopping
<1>13. CASE \E s : Signal(s)
  BY <1>0, <1>13 DEF Signal, startVars, stopVars, history, NotStopping
<1>14. CASE \E u : ListenFails(u)
  BY <1>0, <1>14 DEF ListenFails, startVars, stopVars, history, NotStopping
<1>15. CASE Gone \/ UNCHANGED vars
  BY <1>0, <1>15 DEF Gone, vars, startVars, stopVars, history, NotStopping
<1>. QED
  BY <1>1, <1>2, <1>3, <1>4, <1>5, <1>6, <1>7, <1>8, <1>9, <1>10, <1>11, <1>12, <1>13, <1>14, <1>15
     DEF Next, Main, Goroutines, L4Closes, Environment

(* Shutdown of a server: it accepts nothing any more, unless it is a proxy. *)
LEMMA BeginStep ==
    ASSUME ServerInv, NEW u, Begin(u), UNCHANGED <<started, open>>
    PROVE  ServerInv'
<1>1. /\ DOMAIN server' = DOMAIN server
      /\ \A v \in DOMAIN server : v # u => server'[v] = server[v]
      /\ u \in DOMAIN server /\ ~IsL4(u) =>
            server'[u] = IF server[u] = "serving" THEN "closed" ELSE server[u]
  <2>1. CASE server[u] # "serving"
    BY <2>1 DEF Begin
  <2>2. CASE server[u] = "serving"
    BY <2>2 DEF Begin
  <2>. QED BY <2>1, <2>2
<1>2. began' = began \cup {u}
  BY DEF Begin
<1>. QED BY <1>1, <1>2 DEF ServerInv

(* Every step keeps the servers in their slices, and an http.Server that was
   shut down from accepting. *)
LEMMA ServerInvStep == StopInv /\ ServerInv /\ [Next]_vars => ServerInv'
<1>. SUFFICES ASSUME StopInv, ServerInv, [Next]_vars PROVE ServerInv'
  OBVIOUS
<1>0. CASE UNCHANGED <<started, server, began, open>>
  BY <1>0 DEF ServerInv
<1>1. CASE Load \/ StartListener
  <2>1. NotStopping /\ UNCHANGED <<open, began>>
    BY <1>1 DEF Load, StartListener, NotStopping, stopVars
  <2>2. began = {}
    BY <2>1 DEF StopInv
  <2>3. CASE UNCHANGED <<started, server>>
    BY <1>0, <2>1, <2>3
  <2>4. CASE \E k \in Slices : \E us : \E s \in {"starting", "serving"} : Fits(k, us) /\ Start(k, us, s)
    BY <2>1, <2>2, <2>4, StartStep DEF StopInv
  <2>5. CASE Load
    BY <2>3, <2>4, <2>5, StartedFit DEF Load, Slices
  <2>6. CASE StartListener
    BY <2>3, <2>4, <2>6, StartedFit DEF StartListener, Slices, StopInv
  <2>. QED BY <1>1, <2>5, <2>6
<1>2. CASE Notify \/ Reload \/ Receive \/ Return
  BY <1>0, <1>2 DEF Notify, Reload, Receive, Return, startVars, stopVars
<1>3. CASE Stop
  <2>1. UNCHANGED <<started, open>>
    BY <1>3 DEF Stop, startVars
  <2>2. CASE \E u : Begin(u)
    BY <2>1, <2>2, BeginStep
  <2>. QED BY <1>0, <1>3, <2>1, <2>2 DEF Stop
<1>4. CASE \E t : ServerShutdown(t)
  <2>1. UNCHANGED <<started, open>> /\ \E u : Begin(u)
    BY <1>4 DEF ServerShutdown, startVars
  <2>. QED BY <2>1, BeginStep
<1>5. CASE \E t : WaitReturns(t) \/ Done(t)
  BY <1>0, <1>5 DEF WaitReturns, Done, startVars
<1>6. ASSUME NEW u \in DOMAIN server, Listen(u) PROVE ServerInv'
  <2>1. UNCHANGED <<started, open, began>>
    BY <1>6 DEF Listen, startVars, stopVars
  <2>2. /\ DOMAIN server' = DOMAIN server
        /\ \A v \in DOMAIN server : v # u => server'[v] = server[v]
        /\ server'[u] = IF u \in began THEN "closed" ELSE "serving"
    BY <1>6 DEF Listen
  <2>. QED BY <2>1, <2>2 DEF ServerInv
<1>7. ASSUME NEW u \in DOMAIN server, RunReturns(u) \/ ListenFails(u) PROVE ServerInv'
  <2>1. UNCHANGED <<started, open, began>>
    BY <1>7 DEF RunReturns, ListenFails, startVars, stopVars
  <2>2. CASE UNCHANGED server
    BY <1>0, <2>1, <2>2
  <2>3. CASE \E s \in {"closed", "failed"} : server' = [server EXCEPT ![u] = s]
    <3>1. /\ DOMAIN server' = DOMAIN server
          /\ \A v \in DOMAIN server : v # u => server'[v] = server[v]
          /\ server'[u] \in {"closed", "failed"}
      BY <2>3
    <3>. QED BY <2>1, <3>1 DEF ServerInv
  <2>. QED BY <1>7, <2>2, <2>3 DEF RunReturns, ListenFails
<1>8. ASSUME NEW u \in DOMAIN server, NEW c, Open(u, c) PROVE ServerInv'
  <2>1. UNCHANGED <<started, server, began>> /\ open' = open \cup {<<u, c>>}
    BY <1>8 DEF Open, startVars, stopVars
  <2>. QED BY <2>1 DEF ServerInv
<1>9. CASE \E u, c : Close(u, c)
  <2>1. UNCHANGED <<started, server, began>> /\ open' \subseteq open
    BY <1>9 DEF Close, startVars, stopVars
  <2>. QED BY <2>1 DEF ServerInv
<1>10. CASE Timeout
  BY <1>0, <1>10 DEF Timeout, Expire, startVars
<1>11. CASE \E s : Signal(s)
  BY <1>0, <1>11 DEF Signal, startVars, stopVars
<1>12. CASE Gone \/ UNCHANGED vars
  BY <1>0, <1>12 DEF Gone, vars, startVars, stopVars
<1>. QED
  BY <1>1, <1>2, <1>3, <1>4, <1>5, <1>6, <1>7, <1>8, <1>9, <1>10, <1>11, <1>12
     DEF Next, Main, Goroutines, Servers, L4Closes, Environment

(* A goroutine that waits for the proxies of kind k is not one that shuts an
   http.Server down. *)
LEMMA KeysApart ==
    ASSUME NEW u, NEW k \in {"udp", "tcp"}, ~IsL4(u)
    PROVE  u # <<0, k>>
BY DEF IsL4, Kind

\* What OwedInv says of one connection.
Owed(p) ==
    /\ p \in open
    /\ IsL4(p[1]) =>
          /\ In(p[1], started[Kind(p[1])])
          /\ \/ In(Wait(Kind(p[1])), todo)
             \/ /\ <<0, Kind(p[1])>> \in DOMAIN left
                /\ In(p[1], left[<<0, Kind(p[1])>>])

(* Every step keeps the connections that are owed waited for: a proxy's
   connection is owed from its Shutdown on, before the goroutine is started, and
   the goroutine passes a proxy only while it has no connection. *)
LEMMA OwedInvStep == StopInv /\ ServerInv /\ OwedInv /\ [Next]_vars => OwedInv'
<1>. SUFFICES ASSUME StopInv, ServerInv, OwedInv, [Next]_vars PROVE OwedInv'
  OBVIOUS
<1>a. OwedInv <=> \A p \in owed : Owed(p)
  BY DEF OwedInv, Owed
<1>b. OwedInv' <=> \A p \in owed' : Owed(p)'
  BY DEF OwedInv, Owed
<1>0. CASE UNCHANGED <<started, open, owed, todo, left>>
  BY <1>0 DEF OwedInv
<1>1. CASE Load \/ StartListener \/ Receive
  <2>1. owed = {} /\ owed' = owed
    BY <1>1 DEF Load, StartListener, Receive, NotStopping, StopInv, history
  <2>. QED BY <2>1 DEF OwedInv
<1>2. CASE Notify \/ Reload \/ Return
  BY <1>0, <1>2 DEF Notify, Reload, Return, startVars, stopVars, history
<1>3. CASE Stop
  <2>1. /\ UNCHANGED <<started, open>> /\ todo # <<>> /\ todo' = Tail(todo)
        /\ todo \in Seq(Items)
    BY <1>3, StopCases DEF startVars, InOrder
  <2>2. \A x : In(x, todo) => x = Head(todo) \/ In(x, todo')
    BY <2>1, InTail
  <2>3. ASSUME NEW u \in Units, IsL4(u), In(u, started[Kind(u)]), In(Wait(Kind(u)), todo'),
               Head(todo) = [op |-> "shutdown", unit |-> u],
               Begin(u), UNCHANGED <<left, wg>>
        PROVE  OwedInv'
    <3>1. owed' = owed \cup {p \in open : p[1] = u}
      BY <2>3 DEF Begin
    <3>2. \A k : Wait(k) # Head(todo)
      BY <2>3 DEF Wait
    <3>3. ASSUME NEW p \in owed PROVE Owed(p)'
      <4>1. Owed(p)
        BY <1>a
      <4>. QED BY <2>1, <2>2, <2>3, <3>2, <4>1 DEF Owed
    <3>4. ASSUME NEW p \in open, p[1] = u PROVE Owed(p)'
      BY <2>1, <2>3, <3>4 DEF Owed
    <3>. QED BY <1>b, <3>1, <3>3, <3>4
  <2>4. ASSUME NEW k \in {"udp", "tcp"}, Head(todo) = Wait(k), Go(<<0, k>>, started[k]),
               UNCHANGED <<began, server, owed>>
        PROVE  OwedInv'
    <3>1. started[k] \in Seq(Units)
      BY DEF StopInv, SlicesOK, Slices
    <3>2. /\ DOMAIN left' = DOMAIN left \cup {<<0, k>>}
          /\ \A t \in DOMAIN left' : left'[t] = IF t = <<0, k>> THEN started[k] ELSE left[t]
      BY <2>4, <3>1, GoCounted
    <3>3. ASSUME NEW p \in owed PROVE Owed(p)'
      <4>1. Owed(p)
        BY <1>a
      <4>2. CASE Kind(p[1]) = k
        BY <2>1, <3>2, <4>1, <4>2 DEF Owed
      <4>3. CASE Kind(p[1]) # k
        <5>1. <<0, Kind(p[1])>> # <<0, k>>
          BY <4>3
        <5>2. Wait(Kind(p[1])) # Head(todo)
          BY <2>4, <5>1 DEF Wait
        <5>. QED BY <2>1, <2>2, <3>2, <4>1, <5>1, <5>2 DEF Owed
      <4>. QED BY <4>2, <4>3
    <3>. QED BY <1>b, <2>4, <3>3
  <2>5. ASSUME NEW u \in Units, ~IsL4(u), Head(todo) = GoStop(u), Go(u, <<u>>),
               UNCHANGED <<began, server, owed>>
        PROVE  OwedInv'
    <3>1. <<u>> \in Seq(Units)
      OBVIOUS
    <3>2. /\ DOMAIN left' = DOMAIN left \cup {u}
          /\ \A t \in DOMAIN left' : left'[t] = IF t = u THEN <<u>> ELSE left[t]
      BY <2>5, <3>1, GoCounted
    <3>3. ASSUME NEW p \in owed PROVE Owed(p)'
      <4>1. Owed(p)
        BY <1>a
      <4>2. Wait(Kind(p[1])) # Head(todo)
        BY <2>5 DEF Wait, GoStop
      <4>3. IsL4(p[1]) => <<0, Kind(p[1])>> # u
        BY <2>5, KeysApart DEF IsL4
      <4>. QED BY <2>1, <2>2, <3>2, <4>1, <4>2, <4>3 DEF Owed
    <3>. QED BY <1>b, <2>5, <3>3
  <2>. QED BY <1>3, <2>3, <2>4, <2>5, StopCases
<1>4. ASSUME NEW t, ServerShutdown(t) PROVE OwedInv'
  <2>1. PICK u : u = Head(left[t])
    OBVIOUS
  <2>2. /\ UNCHANGED <<started, open, todo, left>> /\ ~IsL4(u)
        /\ owed' = owed \cup {p \in open : p[1] = u}
    BY <1>4, <2>1 DEF ServerShutdown, Begin, startVars
  <2>3. ASSUME NEW p \in owed PROVE Owed(p)'
    BY <1>a, <2>2 DEF Owed
  <2>4. ASSUME NEW p \in open, p[1] = u PROVE Owed(p)'
    BY <2>2, <2>4 DEF Owed
  <2>. QED BY <1>b, <2>2, <2>3, <2>4
<1>5. ASSUME NEW t \in DOMAIN left, WaitReturns(t) PROVE OwedInv'
  <2>1. PICK s \in Seq(Units) : s = left[t]
    BY DEF StopInv
  <2>2. /\ s # <<>> /\ UNCHANGED <<started, open, todo, owed>>
        /\ ~IsL4(Head(s)) \/ ~\E p \in open : p[1] = Head(s)
    BY <1>5, <2>1 DEF WaitReturns, Idle, startVars, history
  <2>3. /\ DOMAIN left' = DOMAIN left
        /\ \A v \in DOMAIN left : left'[v] = IF v = t THEN Tail(s) ELSE left[v]
    BY <1>5, <2>1 DEF WaitReturns
  <2>4. ASSUME NEW p \in owed PROVE Owed(p)'
    <3>1. Owed(p)
      BY <1>a
    <3>2. CASE IsL4(p[1]) /\ <<0, Kind(p[1])>> = t /\ In(p[1], left[t])
      <4>1. p[1] # Head(s)
        BY <2>2, <3>1, <3>2 DEF Owed
      <4>2. In(p[1], Tail(s))
        BY <2>1, <2>2, <3>2, <4>1, InTail
      <4>. QED BY <2>2, <2>3, <3>1, <3>2, <4>2 DEF Owed
    <3>. QED BY <2>2, <2>3, <3>1, <3>2 DEF Owed
  <2>. QED BY <1>b, <2>2, <2>4
<1>6. ASSUME NEW t \in DOMAIN left, Done(t) PROVE OwedInv'
  <2>1. UNCHANGED <<started, open, todo, owed>> /\ left[t] = <<>>
    BY <1>6 DEF Done, startVars, history
  <2>2. /\ DOMAIN left' = DOMAIN left \ {t}
        /\ \A s \in DOMAIN left' : left'[s] = left[s]
    BY <1>6, DoneCounted
  <2>3. ASSUME NEW p \in owed PROVE Owed(p)'
    <3>1. Owed(p)
      BY <1>a
    <3>2. ~In(p[1], left[t])
      BY <2>1 DEF In
    <3>. QED BY <2>1, <2>2, <3>1, <3>2 DEF Owed
  <2>. QED BY <1>b, <2>1, <2>3
<1>7. CASE \E u, c : Close(u, c)
  <2>1. PICK x : /\ UNCHANGED <<started, todo, left>>
                 /\ open' = open \ {x} /\ owed' = owed \ {x}
    BY <1>7 DEF Close, startVars, stopVars
  <2>2. ASSUME NEW p \in owed' PROVE Owed(p)'
    BY <1>a, <2>1 DEF Owed
  <2>. QED BY <1>b, <2>2
<1>8. CASE \E u, c : Open(u, c)
  <2>1. /\ UNCHANGED <<started, todo, left, owed>> /\ open \subseteq open'
    BY <1>8 DEF Open, startVars, stopVars, history
  <2>2. ASSUME NEW p \in owed' PROVE Owed(p)'
    BY <1>a, <2>1 DEF Owed
  <2>. QED BY <1>b, <2>2
<1>9. CASE Servers \/ Timeout \/ (\E s : Signal(s)) \/ (\E u : ListenFails(u)) \/ Gone \/ UNCHANGED vars
  BY <1>0, <1>9 DEF Servers, Listen, RunReturns, Timeout, Expire, Signal, ListenFails, Gone, vars,
                    startVars, stopVars, history
<1>. QED
  BY <1>1, <1>2, <1>3, <1>4, <1>5, <1>6, <1>7, <1>8, <1>9
     DEF Next, Main, Goroutines, L4Closes, Environment

\* What HttpInv says of one server.
Stopped(u) ==
    \/ In(GoStop(u), todo)
    \/ u \in DOMAIN left /\ left[u] = <<u>>
    \/ Settled(u)

(* From the signal on, every step keeps every http.Server on its way to being
   shut down: the statement for it, then the goroutine, then a Shutdown that has
   returned because the server was idle or the 30 s were over. *)
LEMMA HttpInvStep == StopInv /\ ServerInv /\ HttpInv /\ [Next]_vars => HttpInv'
<1>. SUFFICES ASSUME StopInv, ServerInv, HttpInv, [Next]_vars,
                     main' \in {"stop", "returned"}
              PROVE  \A u \in DOMAIN server' : ~IsL4(u) => Stopped(u)'
  BY DEF HttpInv, Stopped, Settled
<1>0. CASE main = main' /\ UNCHANGED <<todo, left, began, deadline, open>> /\ DOMAIN server' = DOMAIN server
  BY <1>0 DEF HttpInv, Stopped, Settled
<1>1. CASE Load \/ StartListener \/ Notify \/ Reload
  BY <1>1 DEF Load, StartListener, Notify, Reload
<1>2. CASE Receive
  <2>1. todo' = Shutdown /\ UNCHANGED <<server, started>>
    BY <1>2 DEF Receive, startVars
  <2>2. PICK td : td = todo'
    OBVIOUS
  <2>3. \A u \in Units : In(u, started["http"]) \/ In(u, started["admin"]) => In(GoStop(u), td)
    BY <2>1, <2>2, ShutdownInOrder DEF StopInv
  <2>. QED BY <2>1, <2>2, <2>3 DEF ServerInv, Stopped
<1>a. ASSUME main \in {"stop", "returned"}, NEW u \in DOMAIN server, ~IsL4(u)
      PROVE  Stopped(u)
  BY <1>a DEF HttpInv, Stopped
<1>3. CASE Stop
  <2>1. /\ main = "stop" /\ UNCHANGED <<open, deadline>> /\ todo # <<>> /\ todo' = Tail(todo)
        /\ todo \in Seq(Items)
    BY <1>3, StopCases DEF InOrder
  <2>2. \A x : In(x, todo) => x = Head(todo) \/ In(x, todo')
    BY <2>1, InTail
  <2>3. ASSUME NEW v \in Units, Head(todo) = [op |-> "shutdown", unit |-> v],
               Begin(v), UNCHANGED <<left, wg>>,
               NEW u \in DOMAIN server', ~IsL4(u)
        PROVE  Stopped(u)'
    <3>1. DOMAIN server' = DOMAIN server /\ began \subseteq began'
      BY <2>3 DEF Begin
    <3>2. GoStop(u) # Head(todo)
      BY <2>3 DEF GoStop
    <3>. QED BY <1>a, <2>1, <2>2, <2>3, <3>1, <3>2 DEF Stopped, Settled
  <2>4. ASSUME NEW k \in {"udp", "tcp"}, Head(todo) = Wait(k), Go(<<0, k>>, started[k]),
               UNCHANGED <<began, server, owed>>,
               NEW u \in DOMAIN server', ~IsL4(u)
        PROVE  Stopped(u)'
    <3>1. started[k] \in Seq(Units)
      BY DEF StopInv, SlicesOK, Slices
    <3>2. /\ DOMAIN left' = DOMAIN left \cup {<<0, k>>}
          /\ \A t \in DOMAIN left' : left'[t] = IF t = <<0, k>> THEN started[k] ELSE left[t]
      BY <2>4, <3>1, GoCounted
    <3>3. u # <<0, k>>
      BY <2>4, KeysApart
    <3>4. GoStop(u) # Head(todo)
      BY <2>4 DEF GoStop, Wait
    <3>. QED BY <1>a, <2>1, <2>2, <2>4, <3>2, <3>3, <3>4 DEF Stopped, Settled
  <2>5. ASSUME NEW v \in Units, ~IsL4(v), Head(todo) = GoStop(v), Go(v, <<v>>),
               UNCHANGED <<began, server, owed>>,
               NEW u \in DOMAIN server', ~IsL4(u)
        PROVE  Stopped(u)'
    <3>1. <<v>> \in Seq(Units)
      OBVIOUS
    <3>2. /\ DOMAIN left' = DOMAIN left \cup {v}
          /\ \A t \in DOMAIN left' : left'[t] = IF t = v THEN <<v>> ELSE left[t]
      BY <2>5, <3>1, GoCounted
    <3>3. CASE u = v
      BY <3>2, <3>3 DEF Stopped
    <3>4. CASE u # v
      <4>1. GoStop(u) # Head(todo)
        BY <2>5, <3>4 DEF GoStop
      <4>. QED BY <1>a, <2>1, <2>2, <2>5, <3>2, <3>4, <4>1 DEF Stopped, Settled
    <3>. QED BY <3>3, <3>4
  <2>. QED BY <1>3, <2>3, <2>4, <2>5, StopCases
<1>4. CASE Return
  <2>1. main = "stop" /\ UNCHANGED <<todo, left, began, deadline, open, server>>
    BY <1>4 DEF Return, stopVars
  <2>. QED BY <1>a, <2>1 DEF Stopped, Settled
<1>5. CASE \E t : ServerShutdown(t)
  <2>1. /\ main' = main /\ UNCHANGED <<todo, left, deadline, open>>
        /\ began \subseteq began' /\ DOMAIN server' = DOMAIN server
    BY <1>5 DEF ServerShutdown, Begin
  <2>. QED BY <1>a, <2>1 DEF Stopped, Settled
<1>6. ASSUME NEW t \in DOMAIN left, WaitReturns(t),
             NEW u \in DOMAIN server', ~IsL4(u)
      PROVE  Stopped(u)'
  <2>1. /\ main' = main /\ UNCHANGED <<todo, began, deadline, open, server>>
    BY <1>6 DEF WaitReturns
  <2>2. Stopped(u)
    BY <1>a, <1>6, <2>1
  <2>3. /\ DOMAIN left' = DOMAIN left
        /\ \A v \in DOMAIN left : v # t => left'[v] = left[v]
    BY <1>6 DEF WaitReturns
  <2>4. CASE u = t /\ left[u] = <<u>>
    <3>1. Head(left[t]) = u
      BY <2>4
    <3>2. Settled(u)
      BY <1>6, <3>1 DEF WaitReturns, Idle, Settled
    <3>. QED BY <2>1, <3>2 DEF Stopped, Settled
  <2>. QED BY <2>1, <2>2, <2>3, <2>4 DEF Stopped, Settled
<1>7. ASSUME NEW t \in DOMAIN left, Done(t),
             NEW u \in DOMAIN server', ~IsL4(u)
      PROVE  Stopped(u)'
  <2>1. /\ main' = main /\ UNCHANGED <<todo, began, deadline, open, server>> /\ left[t] = <<>>
    BY <1>7 DEF Done
  <2>2. Stopped(u)
    BY <1>a, <1>7, <2>1
  <2>3. /\ DOMAIN left' = DOMAIN left \ {t}
        /\ \A v \in DOMAIN left' : left'[v] = left[v]
    BY <1>7, DoneCounted
  <2>4. left[t] # <<t>>
    BY <2>1
  <2>. QED BY <2>1, <2>2, <2>3, <2>4 DEF Stopped, Settled
<1>8. CASE Servers
  <2>1. PICK v \in DOMAIN server : Listen(v) \/ RunReturns(v)
    BY <1>8 DEF Servers
  <2>. QED BY <1>0, <2>1 DEF Listen, RunReturns, stopVars
<1>9. CASE Timeout
  <2>1. /\ main' = main /\ UNCHANGED <<todo, left, began, open, server>> /\ deadline'
    BY <1>9 DEF Timeout, Expire
  <2>. QED BY <1>a, <2>1 DEF Stopped, Settled
<1>10. CASE \E v, c : Close(v, c)
  <2>1. /\ main' = main /\ UNCHANGED <<todo, left, began, deadline, server>> /\ open' \subseteq open
    BY <1>10 DEF Close, stopVars
  <2>. QED BY <1>a, <2>1 DEF Stopped, Settled
<1>11. ASSUME NEW v \in DOMAIN server, NEW c, Open(v, c),
              NEW u \in DOMAIN server', ~IsL4(u)
       PROVE  Stopped(u)'
  <2>1. /\ main' = main /\ UNCHANGED <<todo, left, began, deadline, server>>
        /\ open' = open \cup {<<v, c>>} /\ server[v] \in {"serving", "closing"}
    BY <1>11 DEF Open, stopVars
  <2>2. Stopped(u)
    BY <1>a, <1>11, <2>1
  <2>3. CASE u \in began
    <3>1. u # v
      BY <1>11, <2>1, <2>3 DEF ServerInv
    <3>2. \A p \in open' : p[1] = u => p \in open
      BY <2>1, <3>1
    <3>. QED BY <2>1, <2>2, <3>2 DEF Stopped, Settled
  <2>. QED BY <2>1, <2>2, <2>3 DEF Stopped, Settled
<1>12. CASE \E s : Signal(s)
  BY <1>0, <1>12 DEF Signal, stopVars
<1>13. CASE \E v : ListenFails(v)
  <2>1. PICK v : ListenFails(v)
    BY <1>13
  <2>2. UNCHANGED main /\ DOMAIN server' = DOMAIN server
    BY <2>1 DEF ListenFails
  <2>. QED BY <1>0, <2>1, <2>2 DEF ListenFails, stopVars
<1>14. CASE Gone \/ UNCHANGED vars
  BY <1>0, <1>14 DEF Gone, vars, stopVars
<1>. QED
  BY <1>1, <1>2, <1>3, <1>4, <1>5, <1>6, <1>7, <1>8, <1>9, <1>10, <1>11, <1>12, <1>13, <1>14
     DEF Next, Main, Goroutines, L4Closes, Environment

-----------------------------------------------------------------------------
(* The theorem. *)

\* The inductive invariant.
DrainInv == StopInv /\ ServerInv /\ OwedInv /\ HttpInv

(* The invariant holds when the process starts. *)
LEMMA DrainInvInit == Init => DrainInv
<1>. SUFFICES ASSUME Init PROVE DrainInv
  OBVIOUS
<1>1. /\ main = "load" /\ next = 1 /\ started = [k \in Slices |-> <<>>] /\ server = <<>> /\ open = {}
      /\ todo = <<>> /\ began = {} /\ left = <<>> /\ wg = 0 /\ owed = {}
  BY DEF Init
<1>2. DOMAIN left = {} /\ DOMAIN server = {}
  BY <1>1
<1>3. SlicesOK(started)
  <2>1. started \in [Slices -> Seq(Units)]
    BY <1>1
  <2>2. \A k \in Slices : \A u : ~In(u, started[k])
    BY <1>1 DEF In
  <2>. QED BY <2>1, <2>2 DEF SlicesOK, Slices
<1>4. InOrder(todo, started)
  BY <1>1 DEF InOrder
<1>5. IsFiniteSet(DOMAIN left) /\ Cardinality(DOMAIN left) <= wg
  BY <1>1, <1>2, FS_EmptySet
<1>. QED BY <1>1, <1>2, <1>3, <1>4, <1>5 DEF DrainInv, StopInv, ServerInv, OwedInv, HttpInv, NotStopping

(* main, in its branch for SIGTERM, prints "Graceful shutdown complete." and
   returns only when every TCP connection and UDP flow that was open when its
   proxy was shut down has ended, and every HTTP request too unless the 30 s
   were over; whatever the listeners and however the goroutines of the shutdown,
   the servers and their clients interleave. *)
THEOREM ShutdownDrains == Spec => []ExitOnlyDrained
<1>1. Init => DrainInv
  BY DrainInvInit
<1>2. DrainInv /\ [Next]_vars => DrainInv'
  BY StopInvStep, ServerInvStep, OwedInvStep, HttpInvStep DEF DrainInv
<1>3. DrainInv => ExitOnlyDrained
  <2>. SUFFICES ASSUME DrainInv, main = "returned"
                PROVE  /\ ~\E p \in owed : IsL4(p[1])
                       /\ deadline \/ open \subseteq {p \in open : IsL4(p[1])}
    BY DEF ExitOnlyDrained
  <2>1. todo = <<>> /\ DOMAIN left = {}
    BY DEF DrainInv, StopInv
  <2>2. \A x : ~In(x, todo)
    BY <2>1 DEF In
  <2>3. ~\E p \in owed : IsL4(p[1])
    BY <2>1, <2>2 DEF DrainInv, OwedInv
  <2>4. ASSUME ~deadline, NEW p \in open PROVE IsL4(p[1])
    BY <2>1, <2>2, <2>4 DEF DrainInv, ServerInv, HttpInv, Settled
  <2>. QED BY <2>3, <2>4
<1>. QED BY <1>1, <1>2, <1>3, PTL DEF Spec
==============================================================================
