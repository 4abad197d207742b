------------------------- MODULE RuntimeLocksProofs -------------------------
(***************************************************************************)
(* The operations of RuntimeLocks never wait for each other in a circle,   *)
(* as long as the appearance of workspaces is left alone: every operation  *)
(* takes lanes before leases, leases before the window sequence, and that  *)
(* before the runtime sequence, except for what it has released meanwhile. *)
(***************************************************************************)
EXTENDS RuntimeLocks, FiniteSetTheorems, SequenceTheorems, WellFoundedInduction, TLAPS

-----------------------------------------------------------------------------
(* The least of some numbers. *)

\* The order of the natural numbers is well founded.
LEMMA LessThanIsWellFounded ==
    \E R : IsWellFoundedOn(R, Nat) /\ \A m, n \in Nat : <<m, n>> \in R <=> m < n
<1>1. \A m, n \in Nat : <<m, n>> \in OpToRel(<, Nat) <=> m < n
  BY DEF OpToRel
<1> QED
  BY <1>1, NatLessThanWellFounded, Zenon

\* A well founded relation on numbers has a minimal element in every set of them.
LEMMA MinimalNumber ==
    ASSUME NEW R, IsWellFoundedOn(R, Nat), NEW T, T \subseteq Nat, T # {}
    PROVE  \E x \in T : \A y \in T : ~ (<<y, x>> \in R)
BY WFMin, Zenon

\* A nonempty set of natural numbers has a least one.
LEMMA LeastNumber ==
    ASSUME NEW T, T \subseteq Nat, T # {}
    PROVE  \E n \in T : \A m \in T : n <= m
<1>1. PICK R : IsWellFoundedOn(R, Nat) /\ \A m, n \in Nat : <<m, n>> \in R <=> m < n
  BY LessThanIsWellFounded, Zenon
<1>2. IsWellFoundedOn(R, Nat) => \E x \in T : \A y \in T : ~ (<<y, x>> \in R)
  BY MinimalNumber, Zenon
<1>3. PICK n \in T : \A m \in T : ~ (<<m, n>> \in R)
  BY <1>1, <1>2, Zenon
<1>4. \A m \in T : ~ (m < n)
  BY <1>1, <1>3, Zenon
<1> QED
  BY <1>4

-----------------------------------------------------------------------------
(* The order of the locks. *)

Rank(l) == IF l[1] = "lane" THEN 1 ELSE IF l[1] = "lease" THEN 2
           ELSE IF l[1] = "window" THEN 3 ELSE 4

Locks == Lanes(Windows) \cup Leases(Roles) \cup Window \cup Runtime
Steps == [asks : SUBSET Locks, drops : SUBSET Locks]

\* Whatever is held when a step asks for a lock comes before that lock; here h is
\* what is held before the first step of f.
Ordered(h, f) ==
    \A i \in 1..Len(f) :
        /\ f[i].asks = {} \/ f[i].drops = {}
        /\ \A l \in f[i].asks :
              /\ \A m \in f[i].asks : Rank(m) = Rank(l)
              /\ \A m \in h : Rank(m) < Rank(l) \/ \E k \in 1..i-1 : m \in f[k].drops
              /\ \A j \in 1..i-1 : \A m \in f[j].asks :
                    Rank(m) < Rank(l) \/ \E k \in j+1..i-1 : m \in f[k].drops

\* What is left of a flow once its first step is taken.
LEMMA TailOfFlow ==
    ASSUME NEW f \in Seq(Steps), f # <<>>
    PROVE  /\ Tail(f) \in Seq(Steps)
           /\ Len(f) \in Nat \ {0}
           /\ Len(Tail(f)) = Len(f) - 1
           /\ \A i \in 1..Len(f) - 1 : Tail(f)[i] = f[i + 1]
           /\ Head(f) = f[1]
           /\ f[1] \in Steps
OBVIOUS

\* Locks that were granted, in order, leave the rest in order.
LEMMA GrantKeepsOrder ==
    ASSUME NEW f \in Seq(Steps), f # <<>>, NEW h, Ordered(h, f), Head(f).drops = {}
    PROVE  Ordered(h \cup Head(f).asks, Tail(f))
<1> DEFINE g == Tail(f)
<1>1. /\ Len(f) \in Nat \ {0}
      /\ Len(g) = Len(f) - 1
      /\ \A i \in 1..Len(f) - 1 : g[i] = f[i + 1]
      /\ Head(f) = f[1]
  BY TailOfFlow
<1> SUFFICES ASSUME NEW i \in 1..Len(g)
             PROVE  /\ g[i].asks = {} \/ g[i].drops = {}
                    /\ \A l \in g[i].asks :
                        /\ \A m \in g[i].asks : Rank(m) = Rank(l)
                        /\ \A m \in h \cup Head(f).asks :
                              Rank(m) < Rank(l) \/ \E k \in 1..i-1 : m \in g[k].drops
                        /\ \A j \in 1..i-1 : \A m \in g[j].asks :
                              Rank(m) < Rank(l) \/ \E k \in j+1..i-1 : m \in g[k].drops
  BY DEF Ordered
<1> HIDE DEF g
<1>2. i + 1 \in 1..Len(f) /\ g[i] = f[i + 1] /\ i \in Nat
  BY <1>1
<1>3. g[i].asks = {} \/ g[i].drops = {}
  BY <1>2 DEF Ordered
<1>4. ASSUME NEW l \in g[i].asks
      PROVE  /\ \A m \in g[i].asks : Rank(m) = Rank(l)
             /\ \A m \in h \cup Head(f).asks :
                   Rank(m) < Rank(l) \/ \E k \in 1..i-1 : m \in g[k].drops
             /\ \A j \in 1..i-1 : \A m \in g[j].asks :
                   Rank(m) < Rank(l) \/ \E k \in j+1..i-1 : m \in g[k].drops
  <2>1. \A m \in g[i].asks : Rank(m) = Rank(l)
    BY <1>2 DEF Ordered
  <2>2. ASSUME NEW m \in h, ~(Rank(m) < Rank(l))
        PROVE  \E k \in 1..i-1 : m \in g[k].drops
    <3>1. PICK k \in 1..i : m \in f[k].drops
      BY <1>2, <2>2 DEF Ordered
    <3>2. k # 1
      BY <1>1, <3>1
    <3>3. k - 1 \in 1..i-1 /\ g[k - 1] = f[k]
      BY <1>1, <1>2, <3>2
    <3> QED
      BY <3>1, <3>3
  <2>3. ASSUME NEW m \in Head(f).asks, ~(Rank(m) < Rank(l))
        PROVE  \E k \in 1..i-1 : m \in g[k].drops
    <3>1. 1 \in 1..(i+1)-1 /\ m \in f[1].asks
      BY <1>1, <1>2
    <3>2. PICK k \in 1+1..(i+1)-1 : m \in f[k].drops
      BY <1>2, <2>3, <3>1 DEF Ordered
    <3>3. k - 1 \in 1..i-1 /\ g[k - 1] = f[k]
      BY <1>1, <1>2
    <3> QED
      BY <3>2, <3>3
  <2>4. ASSUME NEW j \in 1..i-1, NEW m \in g[j].asks, ~(Rank(m) < Rank(l))
        PROVE  \E k \in j+1..i-1 : m \in g[k].drops
    <3>1. j + 1 \in 1..(i+1)-1 /\ g[j] = f[j + 1]
      BY <1>1, <1>2
    <3>2. PICK k \in (j+1)+1..(i+1)-1 : m \in f[k].drops
      BY <1>2, <2>4, <3>1 DEF Ordered
    <3>3. k - 1 \in j+1..i-1 /\ g[k - 1] = f[k]
      BY <1>1, <1>2
    <3> QED
      BY <3>2, <3>3
  <2> QED
    BY <2>1, <2>2, <2>3, <2>4
<1> QED
  BY <1>3, <1>4

\* Locks that were released leave the rest in order.
LEMMA DropKeepsOrder ==
    ASSUME NEW f \in Seq(Steps), f # <<>>, NEW h, Ordered(h, f), Head(f).drops # {}
    PROVE  Ordered(h \ Head(f).drops, Tail(f))
<1> DEFINE g == Tail(f)
<1>1. /\ Len(f) \in Nat \ {0}
      /\ Len(g) = Len(f) - 1
      /\ \A i \in 1..Len(f) - 1 : g[i] = f[i + 1]
      /\ Head(f) = f[1]
  BY TailOfFlow
<1>2. f[1].asks = {}
  BY <1>1 DEF Ordered
<1> SUFFICES ASSUME NEW i \in 1..Len(g)
             PROVE  /\ g[i].asks = {} \/ g[i].drops = {}
                    /\ \A l \in g[i].asks :
                        /\ \A m \in g[i].asks : Rank(m) = Rank(l)
                        /\ \A m \in h \ Head(f).drops :
                              Rank(m) < Rank(l) \/ \E k \in 1..i-1 : m \in g[k].drops
                        /\ \A j \in 1..i-1 : \A m \in g[j].asks :
                              Rank(m) < Rank(l) \/ \E k \in j+1..i-1 : m \in g[k].drops
  BY DEF Ordered
<1> HIDE DEF g
<1>3. i + 1 \in 1..Len(f) /\ g[i] = f[i + 1] /\ i \in Nat
  BY <1>1
<1>4. g[i].asks = {} \/ g[i].drops = {}
  BY <1>3 DEF Ordered
<1>5. ASSUME NEW l \in g[i].asks
      PROVE  /\ \A m \in g[i].asks : Rank(m) = Rank(l)
             /\ \A m \in h \ Head(f).drops :
                   Rank(m) < Rank(l) \/ \E k \in 1..i-1 : m \in g[k].drops
             /\ \A j \in 1..i-1 : \A m \in g[j].asks :
                   Rank(m) < Rank(l) \/ \E k \in j+1..i-1 : m \in g[k].drops
  <2>1. \A m \in g[i].asks : Rank(m) = Rank(l)
    BY <1>3 DEF Ordered
  <2>2. ASSUME NEW m \in h \ Head(f).drops, ~(Rank(m) < Rank(l))
        PROVE  \E k \in 1..i-1 : m \in g[k].drops
    <3>1. PICK k \in 1..i : m \in f[k].drops
      BY <1>3, <2>2 DEF Ordered
    <3>2. k # 1
      BY <1>1, <2>2, <3>1
    <3>3. k - 1 \in 1..i-1 /\ g[k - 1] = f[k]
      BY <1>1, <1>3, <3>2
    <3> QED
      BY <3>1, <3>3
  <2>3. ASSUME NEW j \in 1..i-1, NEW m \in g[j].asks, ~(Rank(m) < Rank(l))
        PROVE  \E k \in j+1..i-1 : m \in g[k].drops
    <3>1. j + 1 \in 1..(i+1)-1 /\ g[j] = f[j + 1]
      BY <1>1, <1>3
    <3>2. PICK k \in (j+1)+1..(i+1)-1 : m \in f[k].drops
      BY <1>3, <2>3, <3>1 DEF Ordered
    <3>3. k - 1 \in j+1..i-1 /\ g[k - 1] = f[k]
      BY <1>1, <1>3
    <3> QED
      BY <3>2, <3>3
  <2> QED
    BY <2>1, <2>2, <2>3
<1> QED
  BY <1>4, <1>5

-----------------------------------------------------------------------------
(* The operations take their locks in order. *)

\* A flow that an operation may begin with.
Startable(f) ==
    /\ f \in Seq(Steps)
    /\ f # <<>>
    /\ Head(f).drops = {}
    /\ Ordered({}, f)

\* The locks and what they rank.
LEMMA LocksRank ==
    /\ \A W \in SUBSET Windows : Lanes(W) \subseteq Locks /\ \A l \in Lanes(W) : Rank(l) = 1
    /\ \A R \in SUBSET Roles : Leases(R) \subseteq Locks /\ \A l \in Leases(R) : Rank(l) = 2
    /\ Window \subseteq Locks /\ \A l \in Window : Rank(l) = 3
    /\ Runtime \subseteq Locks /\ \A l \in Runtime : Rank(l) = 4
    /\ \A l \in Locks : Rank(l) \in 1..4
  BY DEF Locks, Lanes, Leases, Window, Runtime, Rank

LEMMA ShortFlows ==
    Startable(WindowCommand) /\ Startable(UiAction)
<1> USE LocksRank
<1> USE DEF Startable, Ordered, Steps, Take
<1>1. Startable(UiAction)
  BY DEF UiAction
<1>2. Startable(WindowCommand)
  BY DEF WindowCommand
<1> QED
  BY <1>1, <1>2

LEMMA StopIsOrdered ==
    ASSUME NEW R \in SUBSET Roles
    PROVE  Startable(Stop(R))
  BY LocksRank DEF Startable, Ordered, Steps, Take, Release, Stop

LEMMA TakeOverIsOrdered ==
    ASSUME NEW r \in Roles
    PROVE  Startable(TakeOver(r))
<1> DEFINE f == TakeOver(r)
           leases == Leases({r})
<1>1. /\ leases \subseteq Locks /\ \A l \in leases : Rank(l) = 2
      /\ Runtime \subseteq Locks /\ \A l \in Runtime : Rank(l) = 4
  BY LocksRank
<1>2. /\ f \in Seq(Steps) /\ Len(f) = 6
      /\ f[1] = Take(leases) /\ f[2] = Take(Runtime) /\ f[3] = Release(Runtime)
      /\ f[4] = Take(Runtime) /\ f[5] = Release(Runtime) /\ f[6] = Take(Runtime)
  BY <1>1 DEF TakeOver, Steps, Take, Release
<1> HIDE DEF f, leases
<1>3. ASSUME NEW i \in 1..6, NEW j \in 1..i-1, NEW l \in f[i].asks, NEW m \in f[j].asks
      PROVE  Rank(m) < Rank(l) \/ \E k \in j+1..i-1 : m \in f[k].drops
  <2>1. CASE j = 1
    BY <1>1, <1>2, <2>1 DEF Take, Release
  <2>2. CASE j = 2
    BY <1>1, <1>2, <2>2 DEF Take, Release
  <2>3. CASE j = 4
    BY <1>1, <1>2, <2>3 DEF Take, Release
  <2>4. j \in {1, 2, 4}
    BY <1>2, <1>3 DEF Take, Release
  <2> QED
    BY <2>1, <2>2, <2>3, <2>4
<1>4. ASSUME NEW i \in 1..6
      PROVE  /\ f[i].asks = {} \/ f[i].drops = {}
             /\ \A l, m \in f[i].asks : Rank(m) = Rank(l)
  BY <1>1, <1>2 DEF Take, Release
<1>5. Ordered({}, f)
  BY <1>2, <1>3, <1>4 DEF Ordered
<1>6. f # <<>> /\ Head(f).drops = {}
  <2>0. Len(f) = 6
    BY <1>2
  <2>1. f # <<>>
    BY <2>0
  <2>2. Head(f) = f[1]
    BY <1>2, <2>1, TailOfFlow
  <2> QED
    BY <1>2, <2>1, <2>2 DEF Take
<1> QED
  BY <1>2, <1>5, <1>6 DEF Startable, f

LEMMA CloseIsOrdered ==
    ASSUME RolesIn \in [Windows -> SUBSET Roles], NEW w \in Windows
    PROVE  Startable(CloseWindow(w))
<1>1. RolesIn[w] \in SUBSET Roles
  OBVIOUS
<1> QED
  BY <1>1, LocksRank DEF Startable, Ordered, Steps, Take, Release, CloseWindow

LEMMA HostEventIsOrdered ==
    ASSUME RolesIn \in [Windows -> SUBSET Roles], NEW w \in Windows
    PROVE  Startable(HostEvent(w))
<1>1. RolesIn[w] \in SUBSET Roles /\ {w} \in SUBSET Windows
  OBVIOUS
<1> QED
  BY <1>1, LocksRank, SMTT(30) DEF Startable, Ordered, Steps, Take, Release, HostEvent, CloseWindow

\* One flow after another.
LEMMA FlowsInSuccession ==
    ASSUME NEW f \in Seq(Steps), NEW g \in Seq(Steps)
    PROVE  /\ f \o g \in Seq(Steps)
           /\ Len(f \o g) = Len(f) + Len(g)
           /\ \A i \in 1..Len(f) + Len(g) :
                 (f \o g)[i] = IF i <= Len(f) THEN f[i] ELSE g[i - Len(f)]
<1> HIDE DEF Steps
<1> QED
  BY ConcatProperties, Zenon

LEMMA HostMoveIsOrdered ==
    ASSUME RolesIn \in [Windows -> SUBSET Roles], NEW v \in Windows, NEW w \in Windows
    PROVE  Startable(HostMove(v, w))
<1> DEFINE f == HostMove(v, w)
           lanes == Lanes({v, w})
           leases(x) == Leases(RolesIn[x])
<1>1. /\ lanes \subseteq Locks /\ \A l \in lanes : Rank(l) = 1
      /\ leases(v) \subseteq Locks /\ \A l \in leases(v) : Rank(l) = 2
      /\ leases(w) \subseteq Locks /\ \A l \in leases(w) : Rank(l) = 2
      /\ Window \subseteq Locks /\ \A l \in Window : Rank(l) = 3
      /\ Runtime \subseteq Locks /\ \A l \in Runtime : Rank(l) = 4
  BY LocksRank
<1>2. /\ f \in Seq(Steps) /\ Len(f) = 10
      /\ f[1] = Take(lanes) /\ f[2] = Take(leases(v)) /\ f[3] = Take(Window)
      /\ f[4] = Take(Runtime) /\ f[5] = Release(Window \cup Runtime)
      /\ f[6] = Release(leases(v)) /\ f[7] = Take(leases(w)) /\ f[8] = Take(Window)
      /\ f[9] = Take(Runtime) /\ f[10] = Release(Window \cup Runtime)
  <2> DEFINE open == <<Take(lanes)>>
             first == CloseWindow(v)
             between == <<Release(leases(v))>>
             second == CloseWindow(w)
  <2>1. /\ open \in Seq(Steps) /\ Len(open) = 1 /\ open[1] = Take(lanes)
        /\ between \in Seq(Steps) /\ Len(between) = 1 /\ between[1] = Release(leases(v))
    BY <1>1 DEF Steps, Take, Release
  <2>2. /\ first \in Seq(Steps) /\ Len(first) = 4
        /\ first[1] = Take(leases(v)) /\ first[2] = Take(Window)
        /\ first[3] = Take(Runtime) /\ first[4] = Release(Window \cup Runtime)
    BY <1>1 DEF CloseWindow, Steps, Take, Release
  <2>3. /\ second \in Seq(Steps) /\ Len(second) = 4
        /\ second[1] = Take(leases(w)) /\ second[2] = Take(Window)
        /\ second[3] = Take(Runtime) /\ second[4] = Release(Window \cup Runtime)
    BY <1>1 DEF CloseWindow, Steps, Take, Release
  <2>4. f = ((open \o first) \o between) \o second
    BY DEF HostMove
  <2> HIDE DEF open, first, between, second, f
  <2> DEFINE half == open \o first
             most == half \o between
  <2>5. /\ half \in Seq(Steps) /\ Len(half) = Len(open) + Len(first)
        /\ \A i \in 1..Len(open) + Len(first) :
              half[i] = IF i <= Len(open) THEN open[i] ELSE first[i - Len(open)]
    BY <2>1, <2>2, FlowsInSuccession, Zenon
  <2> HIDE DEF half
  <2>6. /\ half \in Seq(Steps) /\ Len(half) = 5
        /\ half[1] = open[1] /\ half[2] = first[1] /\ half[3] = first[2]
        /\ half[4] = first[3] /\ half[5] = first[4]
    BY <2>1, <2>2, <2>5
  <2>7. /\ most \in Seq(Steps) /\ Len(most) = Len(half) + Len(between)
        /\ \A i \in 1..Len(half) + Len(between) :
              most[i] = IF i <= Len(half) THEN half[i] ELSE between[i - Len(half)]
    BY <2>1, <2>6, FlowsInSuccession, Zenon
  <2>8. f = most \o second
    BY <2>4 DEF half
  <2> HIDE DEF most
  <2>9. /\ most \in Seq(Steps) /\ Len(most) = 6
        /\ most[1] = half[1] /\ most[2] = half[2] /\ most[3] = half[3]
        /\ most[4] = half[4] /\ most[5] = half[5] /\ most[6] = between[1]
    BY <2>1, <2>6, <2>7
  <2>10. /\ f \in Seq(Steps) /\ Len(f) = Len(most) + Len(second)
         /\ \A i \in 1..Len(most) + Len(second) :
               f[i] = IF i <= Len(most) THEN most[i] ELSE second[i - Len(most)]
    BY <2>3, <2>8, <2>9, FlowsInSuccession, Zenon
  <2>11. /\ f \in Seq(Steps) /\ Len(f) = 10
         /\ f[1] = most[1] /\ f[2] = most[2] /\ f[3] = most[3] /\ f[4] = most[4]
         /\ f[5] = most[5] /\ f[6] = most[6] /\ f[7] = second[1] /\ f[8] = second[2]
         /\ f[9] = second[3] /\ f[10] = second[4]
    BY <2>3, <2>9, <2>10
  <2> QED
    BY <2>1, <2>2, <2>3, <2>6, <2>9, <2>11
<1> HIDE DEF f, lanes, leases
<1>3. ASSUME NEW i \in 1..10, NEW j \in 1..i-1, NEW l \in f[i].asks, NEW m \in f[j].asks
      PROVE  Rank(m) < Rank(l) \/ \E k \in j+1..i-1 : m \in f[k].drops
  <2>1. i \in {2, 3, 4, 7, 8, 9} /\ j \in {1, 2, 3, 4, 7, 8}
    BY <1>2, <1>3 DEF Take, Release
  <2>2. CASE j = 1
    BY <1>1, <1>2, <2>1, <2>2 DEF Take, Release
  <2>3. CASE j = 2
    <3>1. CASE i \in {3, 4}
      BY <1>1, <1>2, <2>3, <3>1 DEF Take, Release
    <3>2. CASE i > 6
      <4>1. 6 \in j+1..i-1 /\ m \in f[6].drops
        BY <1>2, <2>3, <3>2 DEF Take, Release
      <4> QED
        BY <4>1
    <3> QED
      BY <2>1, <2>3, <3>1, <3>2
  <2>4. CASE j \in {3, 4}
    <3>1. CASE i = 4
      BY <1>1, <1>2, <2>4, <3>1 DEF Take, Release
    <3>2. CASE i > 6
      <4>1. 5 \in j+1..i-1 /\ m \in f[5].drops
        BY <1>2, <2>4, <3>2 DEF Take, Release
      <4> QED
        BY <4>1
    <3> QED
      BY <2>1, <2>4, <3>1, <3>2
  <2>5. CASE j \in {7, 8}
    BY <1>1, <1>2, <2>1, <2>5 DEF Take, Release
  <2> QED
    BY <2>1, <2>2, <2>3, <2>4, <2>5
<1>4. ASSUME NEW i \in 1..10
      PROVE  /\ f[i].asks = {} \/ f[i].drops = {}
             /\ \A l, m \in f[i].asks : Rank(m) = Rank(l)
  BY <1>1, <1>2 DEF Take, Release
<1>5. Ordered({}, f)
  BY <1>2, <1>3, <1>4 DEF Ordered
<1>6. f # <<>> /\ Head(f).drops = {}
  <2>0. Len(f) = 10
    BY <1>2
  <2>1. f # <<>>
    BY <2>0
  <2>2. Head(f) = f[1]
    BY <1>2, <2>1, TailOfFlow
  <2> QED
    BY <1>2, <2>1, <2>2 DEF Take
<1> QED
  BY <1>2, <1>5, <1>6 DEF Startable, f

LEMMA HostStopIsOrdered ==
    ASSUME RolesIn \in [Windows -> SUBSET Roles], NEW w \in Windows
    PROVE  Startable(HostStop(w))
<1> DEFINE f == HostStop(w)
           lanes == Lanes({w})
           leases == Leases(RolesIn[w])
<1>1. /\ lanes \subseteq Locks /\ \A l \in lanes : Rank(l) = 1
      /\ leases \subseteq Locks /\ \A l \in leases : Rank(l) = 2
      /\ Runtime \subseteq Locks /\ \A l \in Runtime : Rank(l) = 4
  BY LocksRank
<1>2. /\ f \in Seq(Steps) /\ Len(f) = 6
      /\ f[1] = Take(lanes) /\ f[2] = Release(lanes) /\ f[3] = Take(leases)
      /\ f[4] = Take(Runtime) /\ f[5] = Release(Runtime) /\ f[6] = Take(Runtime)
  BY <1>1 DEF HostStop, Stop, Steps, Take, Release
<1> HIDE DEF f, lanes, leases
<1>3. ASSUME NEW i \in 1..6, NEW j \in 1..i-1, NEW l \in f[i].asks, NEW m \in f[j].asks
      PROVE  Rank(m) < Rank(l) \/ \E k \in j+1..i-1 : m \in f[k].drops
  <2>1. CASE j = 1
    BY <1>1, <1>2, <2>1 DEF Take, Release
  <2>2. CASE j = 3
    BY <1>1, <1>2, <2>2 DEF Take, Release
  <2>3. CASE j = 4
    BY <1>1, <1>2, <2>3 DEF Take, Release
  <2>4. j \in {1, 3, 4}
    BY <1>2, <1>3 DEF Take, Release
  <2> QED
    BY <2>1, <2>2, <2>3, <2>4
<1>4. ASSUME NEW i \in 1..6
      PROVE  /\ f[i].asks = {} \/ f[i].drops = {}
             /\ \A l, m \in f[i].asks : Rank(m) = Rank(l)
  BY <1>1, <1>2 DEF Take, Release
<1>5. Ordered({}, f)
  BY <1>2, <1>3, <1>4 DEF Ordered
<1>6. f # <<>> /\ Head(f).drops = {}
  <2>0. Len(f) = 6
    BY <1>2
  <2>1. f # <<>>
    BY <2>0
  <2>2. Head(f) = f[1]
    BY <1>2, <2>1, TailOfFlow
  <2> QED
    BY <1>2, <2>1, <2>2 DEF Take
<1> QED
  BY <1>2, <1>5, <1>6 DEF Startable, f

LEMMA FlowsAreOrdered ==
    ASSUME RolesIn \in [Windows -> SUBSET Roles], Appearance = FALSE, NEW f \in Flows
    PROVE  Startable(f)
  BY ShortFlows, StopIsOrdered, TakeOverIsOrdered, CloseIsOrdered, HostEventIsOrdered,
     HostMoveIsOrdered, HostStopIsOrdered DEF Flows

-----------------------------------------------------------------------------
(* The invariant. *)

\* Flows and what is held are made of locks, and an operation that waits is about
\* to take some.
FlowsOK ==
    /\ flow \in [Operations -> Seq(Steps)]
    /\ held \in [Operations -> SUBSET Locks]
    /\ \A o \in Operations : Ordered(held[o], flow[o])
    /\ \A o \in Waiting : flow[o] # <<>> /\ Head(flow[o]).drops = {}

\* Those that wait do so in the order in which they have asked.
WaitersInOrder ==
    /\ Waiting \subseteq Operations
    /\ ahead \in [Waiting -> SUBSET Waiting]
    /\ \A o \in Waiting :
          /\ o \notin ahead[o]
          /\ \A p \in ahead[o] : ahead[p] \subseteq ahead[o]

Inv == FlowsOK /\ WaitersInOrder

LEMMA NothingIsOrdered ==
    ASSUME NEW h
    PROVE  Ordered(h, <<>>)
  BY DEF Ordered

LEMMA InitInv == Init => Inv
<1> SUFFICES ASSUME Init PROVE Inv
  OBVIOUS
<1>1. Waiting = {}
  BY DEF Init, Waiting
<1>2. FlowsOK
  BY <1>1, NothingIsOrdered DEF Init, FlowsOK
<1>3. WaitersInOrder
  BY <1>1 DEF Init, WaitersInOrder, Waiting
<1> QED
  BY <1>2, <1>3 DEF Inv

\* One that asks goes behind all the others.
LEMMA QueuesInOrder ==
    ASSUME WaitersInOrder, NEW o \in Operations, o \notin Waiting, Queues(o)
    PROVE  WaitersInOrder' /\ Waiting' = Waiting \cup {o}
<1>1. Waiting' = Waiting \cup {o}
  BY DEF Queues, Waiting
<1>2. \A p \in Waiting' : ahead'[p] = IF p = o THEN Waiting ELSE ahead[p]
  BY <1>1 DEF Queues
<1>3. ahead' \in [Waiting' -> SUBSET Waiting']
  <2>1. \A p \in Waiting' : ahead'[p] \in SUBSET Waiting'
    BY <1>1, <1>2 DEF WaitersInOrder
  <2> QED
    BY <1>1, <2>1 DEF Queues
<1>4. ASSUME NEW p \in Waiting'
      PROVE  p \notin ahead'[p] /\ \A q \in ahead'[p] : ahead'[q] \subseteq ahead'[p]
  BY <1>1, <1>2 DEF WaitersInOrder
<1> QED
  BY <1>1, <1>3, <1>4 DEF WaitersInOrder

LEMMA BeginInv ==
    ASSUME RolesIn \in [Windows -> SUBSET Roles], Appearance = FALSE,
           Inv, NEW o \in Operations, Begin(o)
    PROVE  Inv'
<1>1. PICK f \in Flows : flow' = [flow EXCEPT ![o] = f]
  BY DEF Begin
<1>2. Startable(f)
  BY FlowsAreOrdered
<1>3. o \notin Waiting /\ WaitersInOrder
  BY DEF Inv, FlowsOK, Begin
<1>4. WaitersInOrder' /\ Waiting' = Waiting \cup {o}
  BY <1>3, QueuesInOrder DEF Begin
<1>5. FlowsOK'
  <2>1. flow' \in [Operations -> Seq(Steps)] /\ held' = held
    BY <1>1, <1>2 DEF Begin, Startable, Inv, FlowsOK
  <2>2. \A p \in Operations : flow'[p] = IF p = o THEN f ELSE flow[p]
    BY <1>1 DEF Inv, FlowsOK
  <2>3. \A p \in Operations : Ordered(held'[p], flow'[p])
    BY <1>2, <2>1, <2>2 DEF Begin, Startable, Inv, FlowsOK
  <2>4. \A p \in Waiting' : flow'[p] # <<>> /\ Head(flow'[p]).drops = {}
    BY <1>2, <1>3, <1>4, <2>2 DEF Startable, Inv, FlowsOK, WaitersInOrder
  <2> QED
    BY <2>1, <2>3, <2>4 DEF Inv, FlowsOK
<1> QED
  BY <1>4, <1>5 DEF Inv

LEMMA AskInv ==
    ASSUME Inv, NEW o \in Operations, Ask(o)
    PROVE  Inv'
<1>1. WaitersInOrder' /\ Waiting' = Waiting \cup {o}
  BY QueuesInOrder DEF Inv, Ask
<1>2. FlowsOK'
  BY <1>1 DEF Inv, FlowsOK, Ask
<1> QED
  BY <1>1, <1>2 DEF Inv

LEMMA GrantInv ==
    ASSUME Inv, NEW o \in Operations, Grant(o)
    PROVE  Inv'
<1>1. Waiting' = Waiting \ {o} /\ \A p \in Waiting' : ahead'[p] = ahead[p] \ {o}
  BY DEF Grant, Waiting
<1>2. WaitersInOrder'
  <2>1. ahead' \in [Waiting' -> SUBSET Waiting']
    BY <1>1 DEF Grant, Inv, WaitersInOrder
  <2> QED
    BY <1>1, <2>1 DEF Inv, WaitersInOrder
<1>3. flow[o] # <<>> /\ Head(flow[o]).drops = {} /\ flow[o] \in Seq(Steps)
  BY DEF Grant, Inv, FlowsOK
<1>4. Ordered(held[o] \cup Asks(o), Tail(flow[o]))
  BY <1>3, GrantKeepsOrder DEF Inv, FlowsOK, Asks
<1>5. Tail(flow[o]) \in Seq(Steps) /\ Asks(o) \in SUBSET Locks
  BY <1>3, TailOfFlow DEF Asks, Steps
<1>6. FlowsOK'
  BY <1>1, <1>4, <1>5 DEF Grant, Inv, FlowsOK, WaitersInOrder
<1> QED
  BY <1>2, <1>6 DEF Inv

LEMMA DropInv ==
    ASSUME Inv, NEW o \in Operations, Drop(o)
    PROVE  Inv'
<1>1. Waiting' = Waiting /\ WaitersInOrder'
  BY DEF Drop, Inv, WaitersInOrder, Waiting
<1>2. o \notin Waiting /\ flow[o] \in Seq(Steps)
  BY DEF Drop, Inv, FlowsOK
<1>3. Ordered(held[o] \ Head(flow[o]).drops, Tail(flow[o]))
  BY <1>2, DropKeepsOrder DEF Drop, Inv, FlowsOK
<1>4. Tail(flow[o]) \in Seq(Steps)
  BY <1>2, TailOfFlow DEF Drop
<1>5. FlowsOK'
  BY <1>1, <1>2, <1>3, <1>4 DEF Drop, Inv, FlowsOK, WaitersInOrder
<1> QED
  BY <1>1, <1>5 DEF Inv

LEMMA ReturnInv ==
    ASSUME Inv, NEW o \in Operations, Return(o)
    PROVE  Inv'
<1>1. Waiting' = Waiting /\ WaitersInOrder'
  BY DEF Return, Inv, WaitersInOrder, Waiting
<1>2. FlowsOK'
  BY <1>1, NothingIsOrdered DEF Return, Inv, FlowsOK, WaitersInOrder
<1> QED
  BY <1>1, <1>2 DEF Inv

-----------------------------------------------------------------------------
(* The circle that cannot be. *)

\* Of some that wait, one has asked before all the others.
LEMMA FirstOfWaiters ==
    ASSUME IsFiniteSet(Operations), WaitersInOrder, NEW T, T \subseteq Waiting, T # {}
    PROVE  \E o \in T : ahead[o] \cap T = {}
<1> DEFINE Before(o) == Cardinality(ahead[o])
<1>1. \A o \in Waiting : IsFiniteSet(ahead[o]) /\ Before(o) \in Nat
  <2>1. \A o \in Waiting : ahead[o] \subseteq Operations
    BY DEF WaitersInOrder
  <2> QED
    BY <2>1, FS_Subset, FS_CardinalityType
<1>2. ASSUME NEW o \in Waiting, NEW p \in ahead[o]
      PROVE  Before(p) < Before(o)
  <2>1. p \in Waiting /\ ahead[p] \subseteq ahead[o] /\ p \notin ahead[p]
    BY DEF WaitersInOrder
  <2> QED
    BY <1>1, <2>1, FS_Subset
<1> HIDE DEF Before
<1>3. PICK n \in {Before(o) : o \in T} : \A m \in {Before(o) : o \in T} : n <= m
  <2>1. {Before(o) : o \in T} \subseteq Nat /\ {Before(o) : o \in T} # {}
    BY <1>1
  <2> QED
    BY <2>1, LeastNumber
<1>4. PICK o \in T : n = Before(o)
  BY <1>3
<1>5. ASSUME NEW p \in ahead[o] \cap T
      PROVE  FALSE
  BY <1>1, <1>2, <1>3, <1>4, <1>5
<1> QED
  BY <1>5

\* One that waits for another has asked for locks of a lower rank, or of the same
\* rank and later.
LEMMA WaitsUpwards ==
    ASSUME Inv, NEW o \in Waiting, NEW p \in Waiting, WaitsFor(o, p)
    PROVE  \E l \in Asks(o) :
              \/ \A m \in Asks(p) : Rank(l) < Rank(m)
              \/ p \in ahead[o] /\ \A m \in Asks(p) : Rank(l) = Rank(m)
<1>1. /\ p \in Operations
      /\ flow[p] \in Seq(Steps) /\ flow[p] # <<>>
      /\ Ordered(held[p], flow[p])
  BY DEF Inv, FlowsOK, WaitersInOrder
<1>2. 1 \in 1..Len(flow[p]) /\ Asks(p) = flow[p][1].asks
  BY <1>1, TailOfFlow DEF Asks
<1>3. /\ \A m \in Asks(p), l \in held[p] : Rank(l) < Rank(m)
      /\ \A l, m \in Asks(p) : Rank(l) = Rank(m)
  BY <1>1, <1>2 DEF Ordered
<1>4. CASE held[p] \cap Asks(o) # {}
  BY <1>3, <1>4
<1>5. CASE p \in ahead[o] /\ Asks(p) \cap Asks(o) # {}
  BY <1>3, <1>5
<1> QED
  BY <1>4, <1>5 DEF WaitsFor

\* All that one asks for at once has one rank.
LEMMA AsksOfOneRank ==
    ASSUME Inv, NEW o \in Waiting
    PROVE  \A l, m \in Asks(o) : Rank(l) \in 1..4 /\ Rank(l) = Rank(m)
<1>1. /\ flow[o] \in Seq(Steps) /\ flow[o] # <<>>
      /\ Ordered(held[o], flow[o])
  BY DEF Inv, FlowsOK, WaitersInOrder
<1>2. 1 \in 1..Len(flow[o]) /\ Asks(o) = flow[o][1].asks /\ Asks(o) \subseteq Locks
  <2>1. /\ Head(flow[o]) = flow[o][1] /\ flow[o][1] \in Steps
        /\ Len(flow[o]) \in Nat \ {0}
    BY <1>1, TailOfFlow
  <2> QED
    BY <2>1 DEF Asks, Steps
<1> QED
  BY <1>1, <1>2, LocksRank DEF Ordered

LEMMA InvAvoidsCircles ==
    ASSUME IsFiniteSet(Operations), Inv
    PROVE  NoCircularWait
<1> SUFFICES ASSUME NEW S \in (SUBSET Waiting) \ {{}}
             PROVE  \E o \in S : \A p \in S : ~WaitsFor(o, p)
  BY DEF NoCircularWait
<1> DEFINE At(n) == {o \in S : \E l \in Asks(o) : Rank(l) = n}
<1>1. CASE \E o \in S : Asks(o) = {}
  BY <1>1 DEF WaitsFor
<1>2. CASE \A o \in S : Asks(o) # {}
  <2>1. \A o \in S : \E n \in 1..4 : o \in At(n)
    BY <1>2, AsksOfOneRank
  <2>2. PICK n \in 1..4 : At(n) # {} /\ \A k \in 1..4 : k > n => At(k) = {}
    <3>1. \E n \in 1..4 : At(n) # {}
      <4>1. PICK o \in S : TRUE
        OBVIOUS
      <4>2. PICK n \in 1..4 : o \in At(n)
        BY <2>1
      <4> QED
        BY <4>2
    <3> HIDE DEF At
    <3> QED
      BY <3>1
  <2>3. PICK o \in At(n) : ahead[o] \cap At(n) = {}
    BY <2>2, FirstOfWaiters DEF Inv
  <2>4. ASSUME NEW p \in S, WaitsFor(o, p)
        PROVE  FALSE
    <3>1. \A l \in Asks(o) : Rank(l) = n
      BY AsksOfOneRank
    <3>2. PICK m \in Asks(p) : Rank(m) \in 1..4
      BY <1>2, AsksOfOneRank
    <3>3. \/ n < Rank(m)
          \/ p \in ahead[o] /\ n = Rank(m)
      BY <2>4, <3>1, <3>2, WaitsUpwards
    <3>4. p \in At(Rank(m))
      BY <3>2
    <3> QED
      BY <2>2, <2>3, <3>2, <3>3, <3>4
  <2> QED
    BY <2>3, <2>4
<1> QED
  BY <1>1, <1>2

LEMMA StepInv ==
    ASSUME RolesIn \in [Windows -> SUBSET Roles], Appearance = FALSE, Inv, [Next]_vars
    PROVE  Inv'
<1>1. CASE UNCHANGED vars
  BY <1>1 DEF vars, Inv, FlowsOK, WaitersInOrder, Waiting, Ordered
<1>2. ASSUME NEW o \in Operations,
             Begin(o) \/ Ask(o) \/ Grant(o) \/ Drop(o) \/ Return(o)
      PROVE  Inv'
  BY <1>2, BeginInv, AskInv, GrantInv, DropInv, ReturnInv
<1> QED
  BY <1>1, <1>2 DEF Next

\* Whatever the windows, the roles and the operations, and whichever of them fail
\* half way: as long as no operation changes the appearance of workspaces, the
\* operations of the Core never wait for each other in a circle.
THEOREM NoDeadlock ==
    ASSUME IsFiniteSet(Operations), RolesIn \in [Windows -> SUBSET Roles], Appearance = FALSE
    PROVE  Spec => []NoCircularWait
<1>1. Init => Inv
  BY InitInv
<1>2. Inv /\ [Next]_vars => Inv'
  BY StepInv
<1>3. Inv => NoCircularWait
  BY InvAvoidsCircles
<1> QED
  BY <1>1, <1>2, <1>3, PTL DEF Spec
=============================================================================
