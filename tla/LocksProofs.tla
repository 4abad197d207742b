----------------------------- MODULE LocksProofs -----------------------------
(***************************************************************************)
(* What the locks of the Core keep, for any threads, windows, roles and    *)
(* operations, and that each of them serves as ScopedLock says.            *)
(*   - The lanes: what `active' holds is what the permits hold, and no     *)
(*     window is held twice; the queue only decides who waits.  It holds   *)
(*     those who do, in the order of `before'.                             *)
(*   - The embedded sequence: the tickets in use are as many as there are  *)
(*     between the two counters, and no two are the same.                  *)
(*   - The leases: which roles are blocked, and who is turned down.  The   *)
(*     queues play no part in these; what they rest on is that a           *)
(*     destructive lease finds its roles open, and that a ticket remembers *)
(*     the versions of the roles when it was queued.  For the order, the   *)
(*     queue of a role holds those that asked for it in the order of       *)
(*     `arrivals', and every queue is kept so.                             *)
(*   - The operations that compose the locks never wait in a circle: that  *)
(*     is proved in RuntimeLocksProofs.                                    *)
(***************************************************************************)
EXTENDS MCLocks, SequenceTheorems, FiniteSetTheorems, TLAPS

-----------------------------------------------------------------------------
(* The lanes.                                                              *)

\* The part of TypeOK that the invariant rests on.
PermitTypes ==
    /\ pc \in [Threads -> {"Idle", "Asleep", "Woken", "Holding"}]
    /\ scopes \in [Threads -> SUBSET Scopes]

PermitInv == PermitTypes /\ HeldOnce

\* A request that is not blocked wants nothing that is held.
LEMMA NotBlockedIsDisjoint ==
    ASSUME NEW queue, NEW id, NEW S, ~Blocked(queue, id, S)
    PROVE  active \cap S = {}
  BY DEF Blocked, Disjoint

LEMMA PermitInit == Init => PermitInv
  BY DEF Init, PermitInv, PermitTypes, HeldOnce, Holding, Disjoint

\* A thread that starts to hold scopes nobody holds.
LEMMA HoldKeepsInv ==
    ASSUME PermitInv,
           NEW t \in Threads, pc[t] # "Holding",
           NEW S \in SUBSET Scopes, active \cap S = {},
           pc' = [pc EXCEPT ![t] = "Holding"],
           scopes' = [scopes EXCEPT ![t] = S],
           active' = active \cup S
    PROVE  PermitInv'
  <1>1. PermitTypes'
    BY DEF PermitInv, PermitTypes
  <1>2. Holding' = Holding \cup {t}
    BY DEF PermitInv, PermitTypes, Holding
  <1>3. t \notin Holding
    BY DEF Holding
  <1>4. \A u \in Holding : scopes'[u] = scopes[u]
    BY <1>3 DEF PermitInv, PermitTypes, Holding
  <1>5. scopes'[t] = S
    BY DEF PermitInv, PermitTypes
  <1>6. active' = UNION {scopes'[u] : u \in Holding'}
    BY <1>2, <1>4, <1>5 DEF PermitInv, HeldOnce
  <1>7. \A u \in Holding : Disjoint(scopes[u], S)
    BY DEF PermitInv, HeldOnce, Disjoint
  <1>8. ASSUME NEW u \in Holding', NEW v \in Holding', u # v
        PROVE  Disjoint(scopes'[u], scopes'[v])
    BY <1>2, <1>4, <1>5, <1>7, <1>8 DEF PermitInv, HeldOnce, Disjoint
  <1> QED
    BY <1>1, <1>6, <1>8 DEF PermitInv, HeldOnce

\* A step that leaves the holders, what they hold and `active' alone.
LEMMA WaitKeepsInv ==
    ASSUME PermitInv, PermitTypes', Holding' = Holding, active' = active,
           \A u \in Holding : scopes'[u] = scopes[u]
    PROVE  PermitInv'
  BY DEF PermitInv, HeldOnce

LEMMA EnterKeepsInv ==
    ASSUME PermitInv, NEW t \in Threads, NEW S \in SUBSET Scopes, Enter(t, S)
    PROVE  PermitInv'
  <1> DEFINE queue == Append(pending, [id |-> next, scopes |-> S])
             blocked == Blocked(queue, next, S)
  <1>1. /\ pc[t] = "Idle"
        /\ scopes' = [scopes EXCEPT ![t] = S]
        /\ active' = IF blocked THEN active ELSE active \cup S
        /\ pc' = [pc EXCEPT ![t] = IF blocked THEN "Asleep" ELSE "Holding"]
    BY DEF Enter
  <1>2. CASE blocked
    <2>1. PermitTypes'
      BY <1>1, <1>2 DEF PermitInv, PermitTypes
    <2>2. Holding' = Holding
      BY <1>1, <1>2 DEF PermitInv, PermitTypes, Holding
    <2>3. \A u \in Holding : scopes'[u] = scopes[u]
      BY <1>1 DEF PermitInv, PermitTypes, Holding
    <2> QED
      BY <1>1, <1>2, <2>1, <2>2, <2>3, WaitKeepsInv
  <1>3. CASE ~blocked
    <2>1. active \cap S = {}
      BY <1>3, NotBlockedIsDisjoint
    <2> QED
      BY <1>1, <1>3, <2>1, HoldKeepsInv
  <1> QED
    BY <1>2, <1>3

LEMMA RecheckKeepsInv ==
    ASSUME PermitInv, NEW t \in Threads, Recheck(t)
    PROVE  PermitInv'
  <1> DEFINE blocked == Blocked(pending, ticket[t], scopes[t])
  <1>1. /\ pc[t] = "Woken"
        /\ scopes' = scopes
        /\ active' = IF blocked THEN active ELSE active \cup scopes[t]
        /\ pc' = [pc EXCEPT ![t] = IF blocked THEN "Asleep" ELSE "Holding"]
    BY DEF Recheck
  <1>2. CASE blocked
    <2>1. PermitTypes'
      BY <1>1, <1>2 DEF PermitInv, PermitTypes
    <2>2. Holding' = Holding
      BY <1>1, <1>2 DEF PermitInv, PermitTypes, Holding
    <2> QED
      BY <1>1, <1>2, <2>1, <2>2, WaitKeepsInv
  <1>3. CASE ~blocked
    <2>1. active \cap scopes[t] = {}
      BY <1>3, NotBlockedIsDisjoint
    <2>2. scopes' = [scopes EXCEPT ![t] = scopes[t]]
      BY <1>1 DEF PermitInv, PermitTypes
    <2>3. scopes[t] \in SUBSET Scopes
      BY DEF PermitInv, PermitTypes
    <2> HIDE DEF blocked
    <2> QED
      BY <1>1, <1>3, <2>1, <2>2, <2>3, HoldKeepsInv
  <1> QED
    BY <1>2, <1>3

\* A permit that is dropped gives back its own scopes and no other.
LEMMA DropKeepsInv ==
    ASSUME PermitInv, NEW t \in Threads, Drop(t)
    PROVE  PermitInv'
  <1>1. PermitTypes'
    BY DEF PermitInv, PermitTypes, Drop
  <1>2. Holding' = Holding \ {t}
    BY DEF PermitInv, PermitTypes, Drop, Holding, Woken
  <1>3. t \in Holding
    BY DEF Drop, Holding
  <1>4. \A u \in Holding \ {t} : scopes'[u] = scopes[u]
    BY DEF PermitInv, PermitTypes, Drop, Holding
  <1>5. \A u \in Holding \ {t} : scopes[u] \cap scopes[t] = {}
    BY <1>3 DEF PermitInv, HeldOnce, Disjoint
  <1>6. active' = active \ scopes[t]
    BY DEF Drop
  <1>7. active' = UNION {scopes'[u] : u \in Holding'}
    <2>1. active = UNION {scopes[u] : u \in Holding}
      BY DEF PermitInv, HeldOnce
    <2>2. active \ scopes[t] = UNION {scopes[u] : u \in Holding \ {t}}
      BY <1>3, <1>5, <2>1
    <2> QED
      BY <1>2, <1>4, <1>6, <2>2
  <1>8. ASSUME NEW u \in Holding', NEW v \in Holding', u # v
        PROVE  Disjoint(scopes'[u], scopes'[v])
    BY <1>2, <1>4, <1>8 DEF PermitInv, HeldOnce
  <1> QED
    BY <1>1, <1>7, <1>8 DEF PermitInv, HeldOnce

LEMMA PermitStep == PermitInv /\ [Next]_vars => PermitInv'
  <1> SUFFICES ASSUME PermitInv, [Next]_vars PROVE PermitInv'
    OBVIOUS
  <1>1. ASSUME NEW t \in Threads, NEW S \in (SUBSET Scopes) \ {{}}, Enter(t, S)
        PROVE  PermitInv'
    BY <1>1, EnterKeepsInv
  <1>2. ASSUME NEW t \in Threads, Recheck(t)
        PROVE  PermitInv'
    BY <1>2, RecheckKeepsInv
  <1>3. ASSUME NEW t \in Threads, WakeSpuriously(t)
        PROVE  PermitInv'
    <2>1. PermitTypes' /\ Holding' = Holding /\ active' = active /\ scopes' = scopes
      BY <1>3 DEF PermitInv, PermitTypes, WakeSpuriously, Holding
    <2> QED
      BY <2>1, WaitKeepsInv
  <1>4. ASSUME NEW t \in Threads, Drop(t)
        PROVE  PermitInv'
    BY <1>4, DropKeepsInv
  <1>5. CASE UNCHANGED vars
    BY <1>5 DEF vars, PermitInv, PermitTypes, HeldOnce, Holding, Disjoint
  <1> QED
    BY <1>1, <1>2, <1>3, <1>4, <1>5 DEF Next

-----------------------------------------------------------------------------
(* Queues: what leaves one, and what stays in order.                       *)

LEMMA ElementRemoved ==
    ASSUME NEW E, NEW s \in Seq(E), NEW k \in 1..Len(s), NEW r, r = RemoveAt(s, k)
    PROVE  /\ r \in Seq(E) /\ Len(r) = Len(s) - 1
           /\ \A i \in 1..Len(r) : r[i] = IF i < k THEN s[i] ELSE s[i + 1]
  <1> DEFINE a == SubSeq(s, 1, k - 1)
             b == SubSeq(s, k + 1, Len(s))
  <1>1. a \in Seq(E) /\ Len(a) = k - 1 /\ \A i \in 1..(k - 1) : a[i] = s[i]
    OBVIOUS
  <1>2. b \in Seq(E) /\ Len(b) = Len(s) - k /\ \A i \in 1..(Len(s) - k) : b[i] = s[k + i]
    OBVIOUS
  <1>3. r = a \o b
    BY DEF RemoveAt
  <1> HIDE DEF a, b
  <1>4. r \in Seq(E) /\ Len(r) = Len(s) - 1
    <2>1. r \in Seq(E)
      BY <1>1, <1>2, <1>3
    <2>2. Len(r) = Len(a) + Len(b)
      <3>1. a \in Seq(E) /\ b \in Seq(E)
        BY <1>1, <1>2
      <3> QED
        BY <1>3, <3>1
    <2>3. Len(s) \in Nat
      OBVIOUS
    <2> QED
      BY <1>1, <1>2, <2>1, <2>2, <2>3
  <1>5. ASSUME NEW i \in 1..Len(r) PROVE r[i] = IF i < k THEN s[i] ELSE s[i + 1]
    <2>1. r[i] = IF i <= Len(a) THEN a[i] ELSE b[i - Len(a)]
      BY <1>1, <1>2, <1>3, <1>4
    <2>2. CASE i < k
      BY <2>1, <2>2, <1>1
    <2>3. CASE i >= k
      <3>1. r[i] = b[i - (k - 1)]
        BY <2>1, <2>3, <1>1
      <3>2. i - (k - 1) \in 1..(Len(s) - k) /\ k + (i - (k - 1)) = i + 1
        BY <2>3, <1>4
      <3> QED
        BY <3>1, <3>2, <2>3, <1>2
    <2> QED
      BY <2>2, <2>3, <1>4
  <1> QED
    BY <1>4, <1>5

\* r has the elements of s other than the k-th, in their order.
KeepsOthers(s, k, r) ==
    /\ \A j \in 1..Len(r) : \A i \in 1..(j - 1) :
          \E n \in 1..Len(s) : \E m \in 1..(n - 1) :
              m # k /\ n # k /\ s[m] = r[i] /\ s[n] = r[j]
    /\ \A n \in 1..Len(s) : \A m \in 1..(n - 1) :
          m # k /\ n # k =>
             \E j \in 1..Len(r) : \E i \in 1..(j - 1) : s[m] = r[i] /\ s[n] = r[j]
    /\ \A j \in 1..Len(r) : \E n \in 1..Len(s) : n # k /\ s[n] = r[j]
    /\ \A n \in 1..Len(s) : n # k => \E j \in 1..Len(r) : s[n] = r[j]

LEMMA OrderKept ==
    ASSUME NEW E, NEW s \in Seq(E), NEW k \in 1..Len(s), NEW r, r = RemoveAt(s, k)
    PROVE  KeepsOthers(s, k, r)
  <1>1. /\ Len(s) \in Nat /\ Len(r) = Len(s) - 1
        /\ \A i \in 1..Len(r) : r[i] = IF i < k THEN s[i] ELSE s[i + 1]
    BY ElementRemoved
  <1> DEFINE Old(i) == IF i < k THEN i ELSE i + 1
             New(n) == IF n < k THEN n ELSE n - 1
  <1>2. \A i \in 1..Len(r) : Old(i) \in 1..Len(s) /\ Old(i) # k /\ r[i] = s[Old(i)]
    BY <1>1
  <1>3. \A n \in 1..Len(s) : n # k => New(n) \in 1..Len(r) /\ r[New(n)] = s[n]
    BY <1>1
  <1>4. \A j \in 1..Len(r) : \A i \in 1..(j - 1) : Old(i) < Old(j) /\ i \in 1..Len(r)
    BY <1>1
  <1>5. \A n \in 1..Len(s) : \A m \in 1..(n - 1) :
           m # k /\ n # k => New(m) < New(n) /\ m \in 1..Len(s)
    BY <1>1
  <1>6. ASSUME NEW j \in 1..Len(r), NEW i \in 1..(j - 1)
        PROVE  \E n \in 1..Len(s) : \E m \in 1..(n - 1) :
                   m # k /\ n # k /\ s[m] = r[i] /\ s[n] = r[j]
    <2>1. Old(i) \in 1..(Old(j) - 1)
      BY <1>1, <1>2, <1>4
    <2> QED
      BY <1>2, <1>4, <2>1
  <1>7. ASSUME NEW n \in 1..Len(s), NEW m \in 1..(n - 1), m # k, n # k
        PROVE  \E j \in 1..Len(r) : \E i \in 1..(j - 1) : s[m] = r[i] /\ s[n] = r[j]
    <2>1. New(m) \in 1..(New(n) - 1) /\ New(n) \in 1..Len(r)
      BY <1>1, <1>3, <1>5, <1>7
    <2>2. r[New(m)] = s[m] /\ r[New(n)] = s[n]
      BY <1>3, <1>5, <1>7
    <2> QED
      BY <2>1, <2>2
  <1> QED
    BY <1>2, <1>3, <1>6, <1>7 DEF KeepsOthers

-----------------------------------------------------------------------------
(* The lanes serve in order.                                               *)

Request == [id : 0..TicketSpan - 1, scopes : SUBSET Scopes]

\* Whoever waits stands in the queue once, under a ticket of its own.
QueueInv ==
    /\ next \in 0..TicketSpan - 1
    /\ ticket \in [Threads -> 0..TicketSpan - 1]
    /\ pending \in Seq(Request)
    /\ QueueIsWaiters
    /\ \A t, u \in Waiting : ticket[t] = ticket[u] => t = u

\* A request that leaves is the only one with its ticket.
LEMMA LeaveRemoves ==
    ASSUME NEW queue \in Seq(Request), NEW k \in 1..Len(queue),
           \A i \in 1..Len(queue) : queue[i].id = queue[k].id => i = k
    PROVE  Leave(queue, queue[k].id) = RemoveAt(queue, k)
  <1> DEFINE id == queue[k].id
             I == {i \in 1..Len(queue) : queue[i].id = id}
  <1>1. I = {k}
    OBVIOUS
  <1>2. Min(I) = k
    <2>1. \A i : i \in I => i = k
      BY <1>1
    <2> QED
      BY <1>1, <2>1 DEF Min
  <1>3. SelectInSeq(queue, LAMBDA r : r.id = id) = k
    BY <1>1, <1>2 DEF SelectInSeq
  <1> QED
    BY <1>3 DEF Leave, RemoveFirstMatch
\* Who waits is in the queue, and the queue orders those who wait.
LEMMA InQueue ==
    ASSUME QueueInv
    PROVE  \A t \in Waiting : \E i \in 1..Len(pending) :
              pending[i].id = ticket[t] /\ pending[i].scopes = scopes[t]
  <1> SUFFICES ASSUME NEW t \in Waiting
               PROVE  \E i \in 1..Len(pending) :
                         pending[i].id = ticket[t] /\ pending[i].scopes = scopes[t]
    OBVIOUS
  <1>1. PICK i \in 1..Len(pending) : pending[i] = [id |-> ticket[t], scopes |-> scopes[t]]
    BY DEF QueueInv, QueueIsWaiters
  <1> QED
    BY <1>1

Follows(s, x, y) ==
    \E j \in 1..Len(s) : \E i \in 1..(j - 1) : s[i].id = x /\ s[j].id = y

\* r is s and a request with the ticket id behind it.
Comes(s, id, r) ==
    /\ \A x, y : y # id => (Follows(r, x, y) <=> Follows(s, x, y))
    /\ \A i \in 1..Len(s) : Follows(r, s[i].id, id)
    /\ \A y : ~Follows(r, id, y)

LEMMA OrderAppended ==
    ASSUME NEW s \in Seq(Request), NEW e \in Request, NEW r, r = Append(s, e),
           \A i \in 1..Len(s) : s[i].id # e.id
    PROVE  Comes(s, e.id, r)
  <1>1. PICK n : n = Len(s) + 1
    OBVIOUS
  <1>2. /\ Len(s) \in Nat /\ n \in Nat /\ Len(r) = n /\ r[n] = e
        /\ \A i \in 1..Len(s) : r[i] = s[i]
    BY <1>1, AppendProperties
  <1>3. \A j \in 1..n : j = n \/ j \in 1..Len(s)
    BY <1>1, <1>2
  <1>4. \A j \in 1..n : \A i \in 1..(j - 1) : i \in 1..Len(s)
    BY <1>1, <1>2
  <1>5. \A i \in 1..Len(s) : i \in 1..n /\ i \in 1..(n - 1)
    BY <1>1, <1>2
  <1>6. n \in 1..n
    BY <1>1, <1>2
  <1>7. ASSUME NEW x, NEW y, y # e.id
        PROVE  Follows(r, x, y) <=> Follows(s, x, y)
    <2>1. ASSUME NEW j \in 1..n, NEW i \in 1..(j - 1), r[i].id = x, r[j].id = y
          PROVE  Follows(s, x, y)
      <3>1. j \in 1..Len(s) /\ i \in 1..Len(s)
        BY <1>2, <1>3, <1>4, <1>7, <2>1
      <3>2. s[i].id = x /\ s[j].id = y
        BY <1>2, <2>1, <3>1
      <3> QED
        BY <3>1, <3>2 DEF Follows
    <2>2. ASSUME NEW j \in 1..Len(s), NEW i \in 1..(j - 1), s[i].id = x, s[j].id = y
          PROVE  Follows(r, x, y)
      <3>1. j \in 1..n /\ i \in 1..Len(s)
        BY <1>4, <1>5
      <3>2. r[i].id = x /\ r[j].id = y
        BY <1>2, <2>2, <3>1
      <3> QED
        BY <1>2, <3>1, <3>2 DEF Follows
    <2> QED
      BY <1>2, <2>1, <2>2 DEF Follows
  <1>8. ASSUME NEW i \in 1..Len(s) PROVE Follows(r, s[i].id, e.id)
    BY <1>2, <1>5, <1>6 DEF Follows
  <1>9. ASSUME NEW y PROVE ~Follows(r, e.id, y)
    BY <1>2, <1>4 DEF Follows
  <1> QED
    BY <1>7, <1>8, <1>9 DEF Comes

\* A request that enters or leaves the queue.
LEMMA QueueJoined ==
    ASSUME QueueInv, NEW t \in Threads, NEW S \in SUBSET Scopes, pc[t] = "Idle",
           \A i \in 1..Len(pending) : pending[i].id # next,
           pending' = Append(pending, [id |-> next, scopes |-> S]),
           ticket' = [ticket EXCEPT ![t] = next],
           scopes \in [Threads -> SUBSET Scopes],
           scopes' = [scopes EXCEPT ![t] = S],
           Waiting' = Waiting \cup {t},
           next' = After(next)
    PROVE  QueueInv' /\ Before' = [Before EXCEPT ![t] = Waiting]
  <1> DEFINE entry == [id |-> next, scopes |-> S]
             n == Len(pending) + 1
  <1>1. /\ Len(pending) \in Nat /\ Len(pending') = n
        /\ pending'[n] = entry
        /\ \A i \in 1..Len(pending) : pending'[i] = pending[i]
        /\ \A i \in 1..n : i # n => i \in 1..Len(pending)
        /\ pending' \in Seq(Request)
    <2>1. entry \in Request
      BY DEF QueueInv, Request
    <2> HIDE DEF entry
    <2>2. pending \in Seq(Request) /\ pending' = Append(pending, entry)
      BY DEF QueueInv, entry
    <2> QED
      BY <2>1, <2>2, AppendProperties
  <1>2. t \notin Waiting /\ Waiting \subseteq Threads
    BY DEF Waiting
  <1>3. /\ \A u \in Waiting : ticket'[u] = ticket[u] /\ scopes'[u] = scopes[u] /\ ticket[u] # next
        /\ ticket'[t] = next /\ scopes'[t] = S
        /\ ticket' \in [Threads -> 0..TicketSpan - 1]
    BY <1>2, InQueue DEF QueueInv
  <1>4. next' \in 0..TicketSpan - 1
    BY SpanAssumption DEF QueueInv, After
  <1>5. QueueIsWaiters'
    <2>1. ASSUME NEW u \in Waiting'
          PROVE  \E i \in 1..Len(pending)' : pending'[i] = [id |-> ticket'[u], scopes |-> scopes'[u]]
      <3>1. CASE u = t
        BY <1>1, <1>3, <3>1
      <3>2. CASE u # t
        <4>1. PICK i \in 1..Len(pending) : pending[i] = [id |-> ticket[u], scopes |-> scopes[u]]
          BY <3>2 DEF QueueInv, QueueIsWaiters
        <4> QED
          BY <1>1, <1>3, <3>2, <4>1
      <3> QED
        BY <3>1, <3>2
    <2>2. ASSUME NEW i \in 1..Len(pending)' PROVE \E u \in Waiting' : pending'[i].id = ticket'[u]
      <3>1. CASE i = n
        BY <1>1, <1>3, <3>1
      <3>2. CASE i # n
        <4>1. PICK u \in Waiting : pending[i].id = ticket[u]
          BY <1>1, <3>2 DEF QueueInv, QueueIsWaiters
        <4> QED
          BY <1>1, <1>3, <3>2, <4>1
      <3> QED
        BY <3>1, <3>2
    <2>3. ASSUME NEW i \in 1..Len(pending)', NEW j \in 1..Len(pending)', pending'[i].id = pending'[j].id
          PROVE  i = j
      <3>1. \A k \in 1..Len(pending) : pending'[k].id # next
        BY <1>1
      <3>2. i = n <=> j = n
        BY <1>1, <2>3, <3>1
      <3> QED
        BY <1>1, <2>3, <3>2 DEF QueueInv, QueueIsWaiters
    <2> QED
      BY <2>1, <2>2, <2>3 DEF QueueIsWaiters
  <1>6. QueueInv'
    <2>1. \A u, v \in Waiting' : ticket'[u] = ticket'[v] => u = v
      BY <1>3 DEF QueueInv
    <2>2. pending' \in Seq(Request')
      BY <1>1 DEF Request
    <2> QED
      BY <1>3, <1>4, <1>5, <2>1, <2>2 DEF QueueInv
  <1>a. Comes(pending, next, pending')
    <2>1. entry \in Request /\ entry.id = next
      BY DEF QueueInv, Request
    <2> HIDE DEF entry
    <2>2. pending \in Seq(Request) /\ pending' = Append(pending, entry)
      BY DEF QueueInv, entry
    <2> QED
      BY <2>1, <2>2, OrderAppended
  <1>b. ASSUME NEW u, NEW v
        PROVE  /\ Precedes(u, v) <=> Follows(pending, ticket[u], ticket[v])
               /\ Precedes(u, v)' <=> Follows(pending', ticket'[u], ticket'[v])
    BY DEF Precedes, Follows
  <1>7. ASSUME NEW u \in Waiting, NEW v \in Waiting PROVE Precedes(u, v)' <=> Precedes(u, v)
    BY <1>3, <1>a, <1>b DEF Comes
  <1>8. ASSUME NEW u \in Waiting PROVE Precedes(u, t)' /\ ~Precedes(t, u)'
    <2>1. PICK i \in 1..Len(pending) : pending[i].id = ticket[u]
      BY InQueue
    <2> QED
      BY <1>3, <1>a, <1>b, <2>1 DEF Comes
  <1>9. ~Precedes(t, t)'
    BY <1>3, <1>a, <1>b DEF Comes
  <1>10. Before'[t] = Waiting
    BY <1>2, <1>8, <1>9 DEF Before
  <1>11. ASSUME NEW u \in Threads, u # t PROVE Before'[u] = Before[u]
    BY <1>7, <1>8, <1>11 DEF Before
  <1> QED
    BY <1>6, <1>10, <1>11 DEF Before

LEMMA QueueLeft ==
    ASSUME QueueInv, NEW t \in Waiting, pending' = Leave(pending, ticket[t]),
           UNCHANGED <<next, ticket, scopes>>, Waiting' = Waiting \ {t}
    PROVE  /\ QueueInv'
           /\ Before' = [u \in Threads |-> IF u = t THEN {} ELSE Before[u] \ {t}]
  <1>1. PICK k \in 1..Len(pending) : pending[k].id = ticket[t]
    BY InQueue
  <1>2. /\ pending \in Seq(Request)
        /\ \A i \in 1..Len(pending) : pending[i].id = pending[k].id => i = k
    BY DEF QueueInv, QueueIsWaiters
  <1>3. pending' = RemoveAt(pending, k)
    BY <1>1, <1>2, LeaveRemoves
  <1>4. pending' \in Seq(Request)
    BY <1>2, <1>3, ElementRemoved
  <1>o. KeepsOthers(pending, k, pending')
    BY <1>2, <1>3, OrderKept
  <1>a. \A j \in 1..Len(pending') : \A i \in 1..(j - 1) :
           \E n \in 1..Len(pending) : \E m \in 1..(n - 1) :
              m # k /\ n # k /\ pending[m] = pending'[i] /\ pending[n] = pending'[j]
    BY <1>o DEF KeepsOthers
  <1>b. \A n \in 1..Len(pending) : \A m \in 1..(n - 1) :
           m # k /\ n # k => \E j \in 1..Len(pending') : \E i \in 1..(j - 1) :
                                pending[m] = pending'[i] /\ pending[n] = pending'[j]
    BY <1>o DEF KeepsOthers
  <1>c. \A j \in 1..Len(pending') : \E n \in 1..Len(pending) : n # k /\ pending[n] = pending'[j]
    BY <1>o DEF KeepsOthers
  <1>d. \A n \in 1..Len(pending) : n # k => \E j \in 1..Len(pending') : pending[n] = pending'[j]
    BY <1>o DEF KeepsOthers
  <1>5. \A u \in Waiting : ticket[u] = ticket[t] => u = t
    BY DEF QueueInv
  <1>6. QueueIsWaiters'
    <2>1. ASSUME NEW u \in Waiting'
          PROVE  \E i \in 1..Len(pending)' : pending'[i] = [id |-> ticket'[u], scopes |-> scopes'[u]]
      <3>1. PICK n \in 1..Len(pending) : pending[n] = [id |-> ticket[u], scopes |-> scopes[u]]
        BY DEF QueueInv, QueueIsWaiters
      <3>2. n # k
        BY <1>1, <1>5, <3>1
      <3>3. PICK i \in 1..Len(pending') : pending[n] = pending'[i]
        BY <1>d, <3>2
      <3> QED
        BY <3>1, <3>3
    <2>2. ASSUME NEW i \in 1..Len(pending)' PROVE \E u \in Waiting' : pending'[i].id = ticket'[u]
      <3>1. PICK n \in 1..Len(pending) : n # k /\ pending[n] = pending'[i]
        BY <1>c
      <3>2. PICK u \in Waiting : pending[n].id = ticket[u]
        BY DEF QueueInv, QueueIsWaiters
      <3>3. u # t
        BY <1>1, <1>2, <3>1, <3>2
      <3> QED
        BY <3>1, <3>2, <3>3
    <2>3. ASSUME NEW i \in 1..Len(pending)', NEW j \in 1..Len(pending)', i < j
          PROVE  pending'[i].id # pending'[j].id
      <3>1. i \in 1..(j - 1)
        BY <2>3
      <3>2. PICK n \in 1..Len(pending) : \E m \in 1..(n - 1) :
               m # k /\ n # k /\ pending[m] = pending'[i] /\ pending[n] = pending'[j]
        BY <1>a, <3>1
      <3>3. PICK m \in 1..(n - 1) : pending[m] = pending'[i] /\ pending[n] = pending'[j]
        BY <3>2
      <3>4. m \in 1..Len(pending) /\ m # n
        BY <1>2
      <3>5. pending[m].id # pending[n].id
        BY <3>4 DEF QueueInv, QueueIsWaiters
      <3> QED
        BY <3>3, <3>5
    <2>4. \A i, j \in 1..Len(pending)' : pending'[i].id = pending'[j].id => i = j
      <3>1. \A i, j \in 1..Len(pending)' : i < j \/ j < i \/ i = j
        BY <1>4
      <3> QED
        BY <2>3, <3>1
    <2> QED
      BY <2>1, <2>2, <2>4 DEF QueueIsWaiters
  <1>7. QueueInv'
    BY <1>4, <1>6 DEF QueueInv, Request
  <1>8. ASSUME NEW u \in Waiting', NEW v \in Waiting' PROVE Precedes(u, v)' <=> Precedes(u, v)
    <2>1. ASSUME Precedes(u, v)' PROVE Precedes(u, v)
      <3>1. PICK j \in 1..Len(pending') : \E i \in 1..(j - 1) :
               pending'[i].id = ticket[u] /\ pending'[j].id = ticket[v]
        BY <2>1 DEF Precedes
      <3>2. PICK i \in 1..(j - 1) : pending'[i].id = ticket[u] /\ pending'[j].id = ticket[v]
        BY <3>1
      <3>3. PICK n \in 1..Len(pending) : \E m \in 1..(n - 1) :
               m # k /\ n # k /\ pending[m] = pending'[i] /\ pending[n] = pending'[j]
        BY <1>a, <3>2
      <3> QED
        BY <3>2, <3>3 DEF Precedes
    <2>2. ASSUME Precedes(u, v) PROVE Precedes(u, v)'
      <3>1. PICK n \in 1..Len(pending) : \E m \in 1..(n - 1) :
               pending[m].id = ticket[u] /\ pending[n].id = ticket[v]
        BY <2>2 DEF Precedes
      <3>2. PICK m \in 1..(n - 1) : pending[m].id = ticket[u] /\ pending[n].id = ticket[v]
        BY <3>1
      <3>3. m # k /\ n # k
        BY <1>1, <1>5, <3>2
      <3>4. PICK j \in 1..Len(pending') : \E i \in 1..(j - 1) :
               pending[m] = pending'[i] /\ pending[n] = pending'[j]
        BY <1>b, <3>3
      <3> QED
        BY <3>2, <3>4 DEF Precedes
    <2> QED
      BY <2>1, <2>2
  <1>9. ASSUME NEW u \in Threads
        PROVE  Before'[u] = IF u = t THEN {} ELSE Before[u] \ {t}
    BY <1>8 DEF Before
  <1> QED
    BY <1>7, <1>9 DEF Before

LEMMA QueueKept ==
    ASSUME QueueInv, UNCHANGED pending, Waiting' = Waiting,
           next' \in 0..TicketSpan - 1, ticket' \in [Threads -> 0..TicketSpan - 1],
           \A u \in Waiting : ticket'[u] = ticket[u] /\ scopes'[u] = scopes[u]
    PROVE  QueueInv' /\ Before' = Before
  <1>1. QueueIsWaiters'
    <2>1. ASSUME NEW u \in Waiting
          PROVE  \E i \in 1..Len(pending) : pending[i] = [id |-> ticket'[u], scopes |-> scopes'[u]]
      <3>1. PICK i \in 1..Len(pending) : pending[i] = [id |-> ticket[u], scopes |-> scopes[u]]
        BY DEF QueueInv, QueueIsWaiters
      <3> QED
        BY <3>1
    <2>2. ASSUME NEW i \in 1..Len(pending) PROVE \E u \in Waiting : pending[i].id = ticket'[u]
      <3>1. PICK u \in Waiting : pending[i].id = ticket[u]
        BY DEF QueueInv, QueueIsWaiters
      <3> QED
        BY <3>1
    <2>3. \A i, j \in 1..Len(pending) : pending[i].id = pending[j].id => i = j
      BY DEF QueueInv, QueueIsWaiters
    <2> QED
      BY <2>1, <2>2, <2>3 DEF QueueIsWaiters
  <1>2. QueueInv'
    BY <1>1 DEF QueueInv, Request
  <1>3. \A u, v \in Waiting : Precedes(u, v)' <=> Precedes(u, v)
    BY DEF Precedes
  <1> QED
    BY <1>2, <1>3 DEF Before

\* A request that need not wait is out of the queue as soon as it is in it.
LEMMA EnteredAndLeft ==
    ASSUME QueueInv, NEW S \in SUBSET Scopes, \A i \in 1..Len(pending) : pending[i].id # next
    PROVE  Leave(Append(pending, [id |-> next, scopes |-> S]), next) = pending
  <1> DEFINE entry == [id |-> next, scopes |-> S]
             queue == Append(pending, entry)
             n == Len(pending) + 1
  <1>1. entry \in Request /\ entry.id = next
    BY DEF QueueInv, Request
  <1>2. pending \in Seq(Request)
    BY DEF QueueInv
  <1> HIDE DEF entry
  <1>3. /\ queue \in Seq(Request) /\ Len(queue) = n /\ n \in 1..Len(queue)
        /\ queue[n] = entry /\ \A i \in 1..Len(pending) : queue[i] = pending[i]
    BY <1>1, <1>2, AppendProperties
  <1> HIDE DEF queue
  <1>4. \A i \in 1..Len(queue) : queue[i].id = queue[n].id => i = n
    BY <1>1, <1>2, <1>3
  <1>5. Leave(queue, queue[n].id) = RemoveAt(queue, n)
    BY <1>3, <1>4, LeaveRemoves
  <1> DEFINE r == RemoveAt(queue, n)
  <1>6. /\ r \in Seq(Request) /\ Len(r) = Len(pending)
        /\ \A i \in 1..Len(r) : r[i] = pending[i]
    <2>1. /\ r \in Seq(Request) /\ Len(r) = Len(queue) - 1
          /\ \A i \in 1..Len(r) : r[i] = IF i < n THEN queue[i] ELSE queue[i + 1]
      BY <1>3, ElementRemoved
    <2> HIDE DEF r
    <2> QED
      BY <1>2, <1>3, <2>1
  <1>7. r = pending
    BY <1>2, <1>6, SeqEqual
  <1> QED
    BY <1>1, <1>3, <1>5, <1>7 DEF queue, entry
-----------------------------------------------------------------------------
LanesInv == PermitInv /\ QueueInv

\* Who enters or waits unblocked shares no scope with those who hold.
LEMMA HoldersDisjoint ==
    ASSUME PermitInv, NEW S, active \cap S = {}, NEW u \in Holding
    PROVE  scopes[u] \cap S = {}
  BY DEF PermitInv, HeldOnce

LEMMA EnterWaits ==
    ASSUME LanesInv, NEW t \in Threads, NEW S \in (SUBSET Scopes) \ {{}}, Enter(t, S),
           Blocked(Append(pending, [id |-> next, scopes |-> S]), next, S)
    PROVE  QueueInv' /\ Lock!Idle(t) /\ Lock!Request(t, S)
  <1>1. /\ pc[t] = "Idle"
        /\ \A i \in 1..Len(pending) : pending[i].id # next
        /\ pending' = Append(pending, [id |-> next, scopes |-> S])
        /\ ticket' = [ticket EXCEPT ![t] = next]
        /\ scopes' = [scopes EXCEPT ![t] = S]
        /\ next' = After(next)
        /\ pc' = [pc EXCEPT ![t] = "Asleep"]
    BY DEF Enter
  <1>2. /\ pc \in [Threads -> {"Idle", "Asleep", "Woken", "Holding"}]
        /\ scopes \in [Threads -> SUBSET Scopes]
    BY DEF LanesInv, PermitInv, PermitTypes
  <1>3. Waiting' = Waiting \cup {t} /\ Holding' = Holding
    BY <1>1, <1>2 DEF Waiting, Holding
  <1>4. QueueInv' /\ Before' = [Before EXCEPT ![t] = Waiting]
    BY <1>1, <1>2, <1>3, QueueJoined DEF LanesInv
  <1>5. Lock!Idle(t)
    BY <1>1 DEF Lock!Idle, Waiting, Holding
  <1> QED
    BY <1>1, <1>3, <1>4, <1>5 DEF Lock!Request

LEMMA EnterHolds ==
    ASSUME LanesInv, NEW t \in Threads, NEW S \in (SUBSET Scopes) \ {{}}, Enter(t, S),
           ~Blocked(Append(pending, [id |-> next, scopes |-> S]), next, S)
    PROVE  QueueInv' /\ Lock!Idle(t) /\ Lock!Take(t, S)
  <1> DEFINE queue == Append(pending, [id |-> next, scopes |-> S])
  <1>1. /\ pc[t] = "Idle"
        /\ \A i \in 1..Len(pending) : pending[i].id # next
        /\ pending' = Leave(queue, next)
        /\ ticket' = [ticket EXCEPT ![t] = next]
        /\ scopes' = [scopes EXCEPT ![t] = S]
        /\ next' = After(next)
        /\ pc' = [pc EXCEPT ![t] = "Holding"]
    BY DEF Enter
  <1>2. /\ pc \in [Threads -> {"Idle", "Asleep", "Woken", "Holding"}]
        /\ scopes \in [Threads -> SUBSET Scopes]
    BY DEF LanesInv, PermitInv, PermitTypes
  <1>3. Waiting' = Waiting /\ Holding' = Holding \cup {t} /\ t \notin Waiting
    BY <1>1, <1>2 DEF Waiting, Holding
  <1>4. pending' = pending
    BY <1>1, EnteredAndLeft DEF LanesInv
  <1>5. /\ next' \in 0..TicketSpan - 1
        /\ ticket' \in [Threads -> 0..TicketSpan - 1]
        /\ \A u \in Waiting : ticket'[u] = ticket[u] /\ scopes'[u] = scopes[u]
    BY <1>1, <1>2, <1>3, SpanAssumption DEF LanesInv, QueueInv, After, Waiting
  <1>6. QueueInv' /\ Before' = Before
    BY <1>3, <1>4, <1>5, QueueKept DEF LanesInv
  <1>7. Lock!Idle(t)
    BY <1>1 DEF Lock!Idle, Waiting, Holding
  <1>8. ASSUME NEW u \in Waiting PROVE scopes[u] \cap S = {}
    <2>1. PICK i \in 1..Len(pending) : pending[i].scopes = scopes[u]
      BY InQueue DEF LanesInv
    <2>2. pending \in Seq(Request) /\ [id |-> next, scopes |-> S] \in Request
      BY DEF LanesInv, QueueInv, Request
    <2>3. i \in 1..Len(queue) /\ \A j \in 1..i : queue[j] = pending[j]
      BY <2>2, AppendProperties
    <2>4. \A j \in 1..i : queue[j].id # next
      BY <1>1, <2>2, <2>3
    <2>5. Disjoint(queue[i].scopes, S)
      BY <2>3, <2>4 DEF Blocked
    <2> QED
      BY <2>1, <2>2, <2>3, <2>5 DEF Disjoint
  <1>9. \A u \in Holding : scopes[u] \cap S = {}
    BY NotBlockedIsDisjoint, HoldersDisjoint DEF LanesInv
  <1> QED
    BY <1>1, <1>3, <1>6, <1>7, <1>8, <1>9 DEF Lock!Take

LEMMA RecheckHolds ==
    ASSUME LanesInv, NEW t \in Threads, Recheck(t), ~Blocked(pending, ticket[t], scopes[t])
    PROVE  QueueInv' /\ Lock!Grant(t)
  <1>1. /\ pc[t] = "Woken"
        /\ pending' = Leave(pending, ticket[t])
        /\ pc' = [pc EXCEPT ![t] = "Holding"]
        /\ UNCHANGED <<next, ticket, scopes>>
    BY DEF Recheck
  <1>2. pc \in [Threads -> {"Idle", "Asleep", "Woken", "Holding"}]
    BY DEF LanesInv, PermitInv, PermitTypes
  <1>3. Waiting' = Waiting \ {t} /\ Holding' = Holding \cup {t} /\ t \in Waiting
    BY <1>1, <1>2 DEF Waiting, Holding
  <1>4. QueueInv' /\ Before' = [u \in Threads |-> IF u = t THEN {} ELSE Before[u] \ {t}]
    BY <1>1, <1>3, QueueLeft DEF LanesInv
  <1>5. \A u \in Holding : scopes[u] \cap scopes[t] = {}
    BY NotBlockedIsDisjoint, HoldersDisjoint DEF LanesInv
  <1>6. ASSUME NEW u \in Before[t] PROVE scopes[u] \cap scopes[t] = {}
    <2>1. u \in Waiting /\ Precedes(u, t)
      BY <1>3 DEF Before
    <2>2. PICK j \in 1..Len(pending) : \E i \in 1..(j - 1) :
             pending[i].id = ticket[u] /\ pending[j].id = ticket[t]
      BY <2>1 DEF Precedes
    <2>3. PICK i \in 1..(j - 1) : pending[i].id = ticket[u] /\ pending[j].id = ticket[t]
      BY <2>2
    <2>4. /\ Len(pending) \in Nat
          /\ \A m, n \in 1..Len(pending) : pending[m].id = pending[n].id => m = n
      BY DEF LanesInv, QueueInv, QueueIsWaiters
    <2>5. i \in 1..Len(pending) /\ \A m \in 1..i : m \in 1..Len(pending) /\ m # j
      BY <2>4
    <2>6. \A m \in 1..i : pending[m].id # ticket[t]
      BY <2>3, <2>4, <2>5
    <2>7. Disjoint(pending[i].scopes, scopes[t])
      BY <2>5, <2>6 DEF Blocked
    <2>8. PICK n \in 1..Len(pending) : pending[n].id = ticket[u] /\ pending[n].scopes = scopes[u]
      BY <2>1, InQueue DEF LanesInv
    <2>9. n = i
      BY <2>3, <2>4, <2>5, <2>8
    <2> QED
      BY <2>7, <2>8, <2>9 DEF Disjoint
  <1>7. Lock!Free(t)
    BY <1>5, <1>6 DEF Lock!Free, Lock!Overlap
  <1> QED
    BY <1>1, <1>3, <1>4, <1>7 DEF Lock!Grant, Lock!Withdrawn

\* A thread that only sleeps or wakes does not move in the queue.
LEMMA SleepsOrWakes ==
    ASSUME LanesInv, UNCHANGED <<next, pending, ticket, scopes>>,
           Waiting' = Waiting, Holding' = Holding
    PROVE  QueueInv' /\ UNCHANGED Lock!vars
  <1>1. QueueInv' /\ Before' = Before
    BY QueueKept DEF LanesInv, QueueInv
  <1> QED
    BY <1>1 DEF Lock!vars

LEMMA DropReleases ==
    ASSUME LanesInv, NEW t \in Threads, Drop(t)
    PROVE  QueueInv' /\ Lock!Release(t)
  <1>1. /\ pc[t] = "Holding"
        /\ scopes' = [scopes EXCEPT ![t] = {}]
        /\ UNCHANGED <<next, pending, ticket>>
    BY DEF Drop
  <1>2. Waiting' = Waiting /\ Holding' = Holding \ {t} /\ t \in Holding
    BY DEF LanesInv, PermitInv, PermitTypes, Drop, Waiting, Holding, Woken
  <1>3. /\ next' \in 0..TicketSpan - 1
        /\ ticket' \in [Threads -> 0..TicketSpan - 1]
        /\ \A u \in Waiting : ticket'[u] = ticket[u] /\ scopes'[u] = scopes[u]
    BY <1>1 DEF LanesInv, QueueInv, PermitInv, PermitTypes, Waiting
  <1>4. QueueInv' /\ Before' = Before
    BY <1>1, <1>2, <1>3, QueueKept DEF LanesInv
  <1> QED
    BY <1>1, <1>2, <1>4 DEF Lock!Release

LEMMA LanesInit == Init => LanesInv /\ Lock!Init
  <1> SUFFICES ASSUME Init PROVE LanesInv /\ Lock!Init
    OBVIOUS
  <1>1. Waiting = {} /\ Holding = {}
    BY DEF Init, Waiting, Holding
  <1>2. Len(pending) = 0 /\ pending \in Seq(Request) /\ 1..Len(pending) = {}
    BY DEF Init
  <1>3. QueueInv
    BY <1>1, <1>2, SpanAssumption DEF Init, QueueInv, QueueIsWaiters
  <1>4. Lock!Init
    BY <1>1 DEF Init, Lock!Init, Before
  <1> QED
    BY <1>3, <1>4, PermitInit DEF LanesInv

LEMMA LanesStep == LanesInv /\ [Next]_vars => LanesInv' /\ [Lock!Next]_(Lock!vars)
  <1> SUFFICES ASSUME LanesInv, [Next]_vars PROVE QueueInv' /\ [Lock!Next]_(Lock!vars)
    BY PermitStep DEF LanesInv
  <1>1. ASSUME NEW t \in Threads, NEW S \in (SUBSET Scopes) \ {{}}, Enter(t, S)
        PROVE  QueueInv' /\ [Lock!Next]_(Lock!vars)
    <2>1. QueueInv' /\ Lock!Idle(t) /\ (Lock!Request(t, S) \/ Lock!Take(t, S))
      BY <1>1, EnterWaits, EnterHolds
    <2> QED
      BY <2>1 DEF Lock!Next
  <1>2. ASSUME NEW t \in Threads, Recheck(t)
        PROVE  QueueInv' /\ [Lock!Next]_(Lock!vars)
    <2>1. CASE Blocked(pending, ticket[t], scopes[t])
      <3>1. UNCHANGED <<next, pending, ticket, scopes>>
        BY <1>2, <2>1 DEF Recheck
      <3>2. Waiting' = Waiting /\ Holding' = Holding
        BY <1>2, <2>1 DEF Recheck, LanesInv, PermitInv, PermitTypes, Waiting, Holding
      <3> QED
        BY <3>1, <3>2, SleepsOrWakes
    <2>2. CASE ~Blocked(pending, ticket[t], scopes[t])
      BY <1>2, <2>2, RecheckHolds DEF Lock!Next
    <2> QED
      BY <2>1, <2>2
  <1>3. ASSUME NEW t \in Threads, WakeSpuriously(t)
        PROVE  QueueInv' /\ [Lock!Next]_(Lock!vars)
    <2>1. UNCHANGED <<next, pending, ticket, scopes>> /\ Waiting' = Waiting /\ Holding' = Holding
      BY <1>3 DEF WakeSpuriously, LanesInv, PermitInv, PermitTypes, Waiting, Holding
    <2> QED
      BY <2>1, SleepsOrWakes
  <1>4. ASSUME NEW t \in Threads, Drop(t)
        PROVE  QueueInv' /\ [Lock!Next]_(Lock!vars)
    BY <1>4, DropReleases DEF Lock!Next
  <1>5. CASE UNCHANGED vars
    <2>1. UNCHANGED <<next, pending, ticket, scopes>> /\ Waiting' = Waiting /\ Holding' = Holding
      BY <1>5 DEF vars, Waiting, Holding
    <2> QED
      BY <2>1, SleepsOrWakes
  <1> QED
    BY <1>1, <1>2, <1>3, <1>4, <1>5 DEF Next

-----------------------------------------------------------------------------
(* The sequence of the embedded runtime serves in order.                   *)

InUse == Sequence!Waiting \cup Sequence!Holding

\* The tickets in use, one for each thread that waits or holds, are ahead of
\* the next one; the holder has the one that is being served.
SequenceInv ==
    /\ next_ticket \in 0..SequenceSpan - 1
    /\ serving_ticket \in 0..SequenceSpan - 1
    /\ sequence_pc \in [SequenceThreads -> {"Idle", "Awake", "Asleep", "Holding"}]
    /\ sequence_ticket \in [SequenceThreads -> 0..SequenceSpan - 1]
    /\ Cardinality(InUse) = Sequence!Ahead(next_ticket)
    /\ \A t \in InUse : Sequence!Ahead(sequence_ticket[t]) < Sequence!Ahead(next_ticket)
    /\ \A t, u \in InUse : sequence_ticket[t] = sequence_ticket[u] => t = u
    /\ \A t \in Sequence!Holding : sequence_ticket[t] = serving_ticket

LEMMA SpanIsEnough ==
    /\ IsFiniteSet(SequenceThreads)
    /\ SequenceSpan \in Nat
    /\ Cardinality(SequenceThreads) \in Nat
    /\ Cardinality(SequenceThreads) < SequenceSpan
  <1>1. Sequence!SpanAssumption
    BY SequenceAssumption
  <1>2. /\ IsFiniteSet(SequenceThreads) /\ SequenceSpan \in Nat
        /\ Cardinality(SequenceThreads) < SequenceSpan
    BY <1>1 DEF Sequence!SpanAssumption, Sequence!IsFiniteSet, IsFiniteSet,
                Sequence!Cardinality, Cardinality
  <1> QED
    BY <1>2, FS_CardinalityType

\* How the counters move round, without the remainders.
LEMMA AheadOf ==
    ASSUME NEW n \in 0..SequenceSpan - 1, serving_ticket \in 0..SequenceSpan - 1
    PROVE  /\ Sequence!Ahead(n) \in 0..SequenceSpan - 1
           /\ Sequence!Ahead(n) = IF n >= serving_ticket THEN n - serving_ticket
                                  ELSE n - serving_ticket + SequenceSpan
  BY SpanIsEnough DEF Sequence!Ahead

LEMMA AfterOf ==
    ASSUME NEW n \in 0..SequenceSpan - 1
    PROVE  /\ Sequence!After(n) \in 0..SequenceSpan - 1
           /\ Sequence!After(n) = IF n + 1 = SequenceSpan THEN 0 ELSE n + 1
  BY SpanIsEnough DEF Sequence!After
LEMMA UsersAreFew ==
    ASSUME NEW U \in SUBSET SequenceThreads
    PROVE  IsFiniteSet(U) /\ Cardinality(U) \in Nat /\ Cardinality(U) <= Cardinality(SequenceThreads)
  BY SpanIsEnough, FS_Subset, FS_CardinalityType

LEMMA SequenceInit == Sequence!Init => SequenceInv /\ Sequence!Lock!Init
  <1> SUFFICES ASSUME Sequence!Init PROVE SequenceInv /\ Sequence!Lock!Init
    OBVIOUS
  <1>1. Sequence!Waiting = {} /\ Sequence!Holding = {}
    BY DEF Sequence!Init, Sequence!Waiting, Sequence!Holding
  <1>2. InUse = {} /\ Cardinality(InUse) = 0
    BY <1>1, FS_EmptySet DEF InUse
  <1>3. 0 \in 0..SequenceSpan - 1
    BY SpanIsEnough
  <1>4. /\ next_ticket = 0 /\ serving_ticket = 0
        /\ sequence_pc \in [SequenceThreads -> {"Idle", "Awake", "Asleep", "Holding"}]
        /\ sequence_ticket \in [SequenceThreads -> 0..SequenceSpan - 1]
    BY <1>3 DEF Sequence!Init
  <1>5. Sequence!Ahead(next_ticket) = 0
    BY <1>3, <1>4, AheadOf
  <1>6. SequenceInv
    BY <1>1, <1>2, <1>3, <1>4, <1>5 DEF SequenceInv
  <1>7. Sequence!Lock!Init
    BY <1>1 DEF Sequence!Lock!Init, Sequence!Before, Sequence!Wants
  <1> QED
    BY <1>6, <1>7

\* Whoever asks gets the last place: there are more tickets than threads.
LEMMA TicketIsLast ==
    ASSUME SequenceInv, NEW t \in SequenceThreads, Sequence!TakeTicket(t)
    PROVE  /\ SequenceInv'
           /\ Sequence!Lock!Idle(t) /\ Sequence!Lock!Request(t, {"runtime"})
  <1>1. /\ sequence_pc[t] = "Idle"
        /\ sequence_ticket' = [sequence_ticket EXCEPT ![t] = next_ticket]
        /\ next_ticket' = Sequence!After(next_ticket)
        /\ sequence_pc' = [sequence_pc EXCEPT ![t] = "Awake"]
        /\ serving_ticket' = serving_ticket
    BY DEF Sequence!TakeTicket
  <1>2. /\ next_ticket \in 0..SequenceSpan - 1
        /\ serving_ticket \in 0..SequenceSpan - 1
        /\ sequence_pc \in [SequenceThreads -> {"Idle", "Awake", "Asleep", "Holding"}]
        /\ sequence_ticket \in [SequenceThreads -> 0..SequenceSpan - 1]
    BY DEF SequenceInv
  <1>3. /\ Sequence!Waiting' = Sequence!Waiting \cup {t} /\ Sequence!Holding' = Sequence!Holding
        /\ t \notin InUse /\ InUse \subseteq SequenceThreads
    BY <1>1, <1>2 DEF Sequence!Waiting, Sequence!Holding, InUse
  <1>4. InUse' = InUse \cup {t}
    BY <1>3 DEF InUse
  <1> DEFINE n == Sequence!Ahead(next_ticket)
  <1>5. n \in 0..SequenceSpan - 1 /\ n + 1 < SequenceSpan /\ Cardinality(InUse') = n + 1
    <2>1. Cardinality(InUse') = Cardinality(InUse) + 1
      BY <1>3, <1>4, UsersAreFew, FS_AddElement
    <2>2. Cardinality(InUse') \in Nat /\ Cardinality(InUse') <= Cardinality(SequenceThreads)
      BY <1>3, <1>4, UsersAreFew
    <2>3. n \in 0..SequenceSpan - 1 /\ Cardinality(InUse) = n
      BY <1>2, AheadOf DEF SequenceInv
    <2> QED
      BY <2>1, <2>2, <2>3, SpanIsEnough
  <1>6. next_ticket' \in 0..SequenceSpan - 1 /\ Sequence!Ahead(next_ticket') = n + 1
    <2>1. next_ticket' \in 0..SequenceSpan - 1
          /\ next_ticket' = IF next_ticket + 1 = SequenceSpan THEN 0 ELSE next_ticket + 1
      BY <1>1, <1>2, AfterOf
    <2>2. n = IF next_ticket >= serving_ticket THEN next_ticket - serving_ticket
              ELSE next_ticket - serving_ticket + SequenceSpan
      BY <1>2, AheadOf
    <2>3. Sequence!Ahead(next_ticket') =
             IF next_ticket' >= serving_ticket THEN next_ticket' - serving_ticket
             ELSE next_ticket' - serving_ticket + SequenceSpan
      BY <1>2, <2>1, AheadOf
    <2> HIDE DEF n
    <2> QED
      BY <1>2, <1>5, <2>1, <2>2, <2>3, SpanIsEnough
  <1>7. /\ sequence_ticket'[t] = next_ticket
        /\ \A u \in InUse : sequence_ticket'[u] = sequence_ticket[u]
        /\ \A u \in InUse : Sequence!Ahead(sequence_ticket[u]) \in Nat
                            /\ Sequence!Ahead(sequence_ticket[u]) < n
        /\ \A u \in InUse : sequence_ticket[u] # next_ticket
    <2>1. \A u \in InUse : Sequence!Ahead(sequence_ticket[u]) \in 0..SequenceSpan - 1
      BY <1>2, <1>3, AheadOf
    <2>2. \A u \in InUse : Sequence!Ahead(sequence_ticket[u]) < n
      BY DEF SequenceInv
    <2> QED
      BY <1>1, <1>2, <1>3, <1>5, <2>1, <2>2
  <1>8. \A u \in SequenceThreads : Sequence!Ahead(sequence_ticket[u])' = Sequence!Ahead(sequence_ticket'[u])
    BY <1>1 DEF Sequence!Ahead
  <1>9. SequenceInv'
    <2>1. Sequence!Ahead(next_ticket)' = n + 1
      BY <1>1, <1>6 DEF Sequence!Ahead
    <2>2. ASSUME NEW u \in InUse'
          PROVE  Sequence!Ahead(sequence_ticket[u])' < Sequence!Ahead(next_ticket)'
      BY <1>3, <1>4, <1>5, <1>7, <1>8, <2>1
    <2>3. ASSUME NEW u \in InUse', NEW v \in InUse', sequence_ticket'[u] = sequence_ticket'[v]
          PROVE  u = v
      BY <1>4, <1>7, <2>3 DEF SequenceInv
    <2>4. ASSUME NEW u \in Sequence!Holding' PROVE sequence_ticket'[u] = serving_ticket'
      BY <1>1, <1>3, <1>7 DEF SequenceInv, InUse
    <2>5. /\ sequence_pc' \in [SequenceThreads -> {"Idle", "Awake", "Asleep", "Holding"}]
          /\ sequence_ticket' \in [SequenceThreads -> 0..SequenceSpan - 1]
      BY <1>1, <1>2
    <2> QED
      BY <1>1, <1>2, <1>5, <1>6, <2>1, <2>2, <2>3, <2>4, <2>5 DEF SequenceInv
  <1>10. Sequence!Before' = [Sequence!Before EXCEPT ![t] = Sequence!Waiting]
    <2>1. ASSUME NEW u \in Sequence!Waiting, NEW v \in Sequence!Waiting
          PROVE  /\ Sequence!Ahead(sequence_ticket[u])' = Sequence!Ahead(sequence_ticket[u])
                 /\ u # t
      BY <1>3, <1>7, <1>8 DEF InUse
    <2>2. /\ Sequence!Ahead(sequence_ticket[t])' = n
          /\ \A u \in Sequence!Waiting : Sequence!Ahead(sequence_ticket[u])' < n
                                      /\ ~(n < Sequence!Ahead(sequence_ticket[u])')
      BY <1>3, <1>5, <1>7, <1>8 DEF InUse
    <2>3. Sequence!Before'[t] = Sequence!Waiting
      BY <1>3, <1>5, <2>1, <2>2 DEF Sequence!Before
    <2>4. ASSUME NEW u \in SequenceThreads, u # t PROVE Sequence!Before'[u] = Sequence!Before[u]
      BY <1>3, <2>1, <2>2, <2>4 DEF Sequence!Before
    <2> QED
      BY <2>3, <2>4 DEF Sequence!Before
  <1>11. Sequence!Wants' = [Sequence!Wants EXCEPT ![t] = {"runtime"}]
    BY <1>3 DEF Sequence!Wants
  <1>12. Sequence!Lock!Idle(t)
    BY <1>3 DEF Sequence!Lock!Idle, InUse
  <1> QED
    BY <1>3, <1>9, <1>10, <1>11, <1>12 DEF Sequence!Lock!Request
\* Nothing that the tickets say changes while threads only sleep, wake or get
\* their turn.
LEMMA TicketsKept ==
    ASSUME SequenceInv, UNCHANGED <<next_ticket, serving_ticket, sequence_ticket>>,
           sequence_pc' \in [SequenceThreads -> {"Idle", "Awake", "Asleep", "Holding"}],
           InUse' = InUse,
           \A t \in Sequence!Holding' : sequence_ticket[t] = serving_ticket
    PROVE  /\ SequenceInv' /\ Sequence!Wants' = Sequence!Wants
           /\ \A n : Sequence!Ahead(n)' = Sequence!Ahead(n)
  <1>1. Sequence!Ahead(next_ticket)' = Sequence!Ahead(next_ticket)
        /\ \A t : Sequence!Ahead(sequence_ticket[t])' = Sequence!Ahead(sequence_ticket[t])
    BY DEF Sequence!Ahead
  <1>2. SequenceInv'
    BY <1>1 DEF SequenceInv
  <1>3. Sequence!Wants' = Sequence!Wants
    BY DEF Sequence!Wants, InUse
  <1> QED
    BY <1>2, <1>3 DEF Sequence!Ahead

LEMMA SleepsOrWakesInSequence ==
    ASSUME SequenceInv, UNCHANGED <<next_ticket, serving_ticket, sequence_ticket>>,
           sequence_pc' \in [SequenceThreads -> {"Idle", "Awake", "Asleep", "Holding"}],
           Sequence!Waiting' = Sequence!Waiting, Sequence!Holding' = Sequence!Holding
    PROVE  SequenceInv' /\ UNCHANGED Sequence!Lock!vars
  <1>1. InUse' = InUse /\ \A t \in Sequence!Holding' : sequence_ticket[t] = serving_ticket
    BY DEF InUse, SequenceInv
  <1>2. SequenceInv' /\ Sequence!Wants' = Sequence!Wants
    BY <1>1, TicketsKept
  <1>3. Sequence!Before' = Sequence!Before
    BY DEF Sequence!Before, Sequence!Ahead
  <1> QED
    BY <1>2, <1>3 DEF Sequence!Lock!vars

\* Whoever is served is the only one with the ticket, and nobody is before it.
LEMMA ServedIsFirst ==
    ASSUME SequenceInv, NEW t \in SequenceThreads, Sequence!Look(t), Sequence!Served(t)
    PROVE  SequenceInv' /\ Sequence!Lock!Grant(t)
  <1>1. /\ sequence_pc[t] = "Awake"
        /\ sequence_pc' = [sequence_pc EXCEPT ![t] = "Holding"]
        /\ UNCHANGED <<next_ticket, serving_ticket, sequence_ticket>>
        /\ sequence_ticket[t] = serving_ticket
    BY DEF Sequence!Look, Sequence!Served
  <1>2. /\ serving_ticket \in 0..SequenceSpan - 1
        /\ sequence_pc \in [SequenceThreads -> {"Idle", "Awake", "Asleep", "Holding"}]
        /\ sequence_ticket \in [SequenceThreads -> 0..SequenceSpan - 1]
    BY DEF SequenceInv
  <1>3. /\ Sequence!Waiting' = Sequence!Waiting \ {t}
        /\ Sequence!Holding' = Sequence!Holding \cup {t}
        /\ t \in Sequence!Waiting /\ t \notin Sequence!Holding
        /\ InUse' = InUse
    BY <1>1, <1>2 DEF Sequence!Waiting, Sequence!Holding, InUse
  <1>4. /\ SequenceInv' /\ Sequence!Wants' = Sequence!Wants
        /\ \A n : Sequence!Ahead(n)' = Sequence!Ahead(n)
    <2>1. \A u \in Sequence!Holding' : sequence_ticket[u] = serving_ticket
      BY <1>1, <1>3 DEF SequenceInv
    <2>2. sequence_pc' \in [SequenceThreads -> {"Idle", "Awake", "Asleep", "Holding"}]
      BY <1>1, <1>2
    <2> QED
      BY <1>1, <1>3, <2>1, <2>2, TicketsKept
  <1>5. Sequence!Holding = {}
    BY <1>1, <1>3 DEF SequenceInv, InUse
  <1>6. /\ Sequence!Ahead(sequence_ticket[t]) = 0
        /\ \A u \in SequenceThreads : Sequence!Ahead(sequence_ticket[u]) \in 0..SequenceSpan - 1
    <2>1. Sequence!Ahead(serving_ticket) = 0
      BY <1>2, AheadOf
    <2> QED
      BY <1>1, <1>2, <2>1, AheadOf
  <1>7. Sequence!Waiting \subseteq SequenceThreads
    BY DEF Sequence!Waiting
  <1>8. \A u \in SequenceThreads : ~(Sequence!Ahead(sequence_ticket[u]) < Sequence!Ahead(sequence_ticket[t]))
    BY <1>6
  <1>9. Sequence!Before[t] = {}
    BY <1>7, <1>8 DEF Sequence!Before
  <1>10. Sequence!Before' = [u \in SequenceThreads |->
                               IF u = t THEN {} ELSE Sequence!Before[u] \ {t}]
    <2>1. ASSUME NEW u \in SequenceThreads
          PROVE  Sequence!Ahead(sequence_ticket[u])' = Sequence!Ahead(sequence_ticket[u])
      BY <1>1 DEF Sequence!Ahead
    <2>2. ASSUME NEW u \in SequenceThreads
          PROVE  Sequence!Before'[u] = IF u = t THEN {} ELSE Sequence!Before[u] \ {t}
      BY <1>3, <1>7, <2>1 DEF Sequence!Before
    <2>3. Sequence!Before' = [u \in SequenceThreads |-> Sequence!Before'[u]]
      BY DEF Sequence!Before
    <2> QED
      BY <2>2, <2>3
  <1>11. Sequence!Lock!Free(t)
    BY <1>5, <1>9 DEF Sequence!Lock!Free
  <1> QED
    BY <1>3, <1>4, <1>10, <1>11 DEF Sequence!Lock!Grant, Sequence!Lock!Withdrawn

\* A permit that is dropped serves the next ticket: everybody gets one closer.
LEMMA DropServesNext ==
    ASSUME SequenceInv, NEW t \in SequenceThreads, Sequence!Drop(t)
    PROVE  SequenceInv' /\ Sequence!Lock!Release(t)
  <1>1. /\ sequence_pc[t] = "Holding"
        /\ serving_ticket' = Sequence!After(serving_ticket)
        /\ UNCHANGED <<next_ticket, sequence_ticket>>
        /\ sequence_pc' = [u \in SequenceThreads |->
              IF u = t THEN "Idle" ELSE IF sequence_pc[u] = "Asleep" THEN "Awake" ELSE sequence_pc[u]]
    BY DEF Sequence!Drop, Sequence!Woken
  <1>2. /\ next_ticket \in 0..SequenceSpan - 1
        /\ serving_ticket \in 0..SequenceSpan - 1
        /\ sequence_pc \in [SequenceThreads -> {"Idle", "Awake", "Asleep", "Holding"}]
        /\ sequence_ticket \in [SequenceThreads -> 0..SequenceSpan - 1]
    BY DEF SequenceInv
  <1>3. /\ Sequence!Waiting' = Sequence!Waiting
        /\ Sequence!Holding' = Sequence!Holding \ {t}
        /\ t \in Sequence!Holding /\ t \notin Sequence!Waiting
        /\ sequence_pc' \in [SequenceThreads -> {"Idle", "Awake", "Asleep", "Holding"}]
    BY <1>1, <1>2 DEF Sequence!Waiting, Sequence!Holding
  <1>4. InUse' = InUse \ {t} /\ t \in InUse /\ InUse \subseteq SequenceThreads
    BY <1>3 DEF InUse, Sequence!Waiting, Sequence!Holding
  <1>5. sequence_ticket[t] = serving_ticket
    BY <1>3 DEF SequenceInv
  <1>6. /\ serving_ticket' \in 0..SequenceSpan - 1
        /\ serving_ticket' = IF serving_ticket + 1 = SequenceSpan THEN 0 ELSE serving_ticket + 1
    BY <1>1, <1>2, AfterOf
  <1>7. ASSUME NEW n \in 0..SequenceSpan - 1, n # serving_ticket
        PROVE  /\ Sequence!Ahead(n) \in 0..SequenceSpan - 1
               /\ Sequence!Ahead(n)' = Sequence!Ahead(n) - 1
    <2>1. /\ Sequence!Ahead(n) \in 0..SequenceSpan - 1
          /\ Sequence!Ahead(n) = IF n >= serving_ticket THEN n - serving_ticket
                                  ELSE n - serving_ticket + SequenceSpan
      BY <1>2, AheadOf
    <2>2. Sequence!Ahead(n)' = IF n >= serving_ticket' THEN n - serving_ticket'
                               ELSE n - serving_ticket' + SequenceSpan
      BY <1>6, SpanIsEnough DEF Sequence!Ahead
    <2> QED
      BY <1>2, <1>6, <1>7, <2>1, <2>2, SpanIsEnough
  <1>8. \A u \in InUse : u # t => sequence_ticket[u] # serving_ticket
    BY <1>4, <1>5 DEF SequenceInv
  <1>9. ASSUME NEW u \in InUse \ {t}
        PROVE  /\ Sequence!Ahead(sequence_ticket[u]) \in 0..SequenceSpan - 1
               /\ Sequence!Ahead(sequence_ticket[u])' = Sequence!Ahead(sequence_ticket[u]) - 1
    <2>1. sequence_ticket[u] \in 0..SequenceSpan - 1 /\ sequence_ticket[u] # serving_ticket
      BY <1>2, <1>4, <1>8
    <2>2. Sequence!Ahead(sequence_ticket[u])' = IF sequence_ticket[u] >= serving_ticket'
                                               THEN sequence_ticket[u] - serving_ticket'
                                               ELSE sequence_ticket[u] - serving_ticket' + SequenceSpan
      BY <1>1, <1>6, <2>1, SpanIsEnough DEF Sequence!Ahead
    <2>3. /\ Sequence!Ahead(sequence_ticket[u]) \in 0..SequenceSpan - 1
          /\ Sequence!Ahead(sequence_ticket[u]) =
                IF sequence_ticket[u] >= serving_ticket THEN sequence_ticket[u] - serving_ticket
                ELSE sequence_ticket[u] - serving_ticket + SequenceSpan
      BY <1>2, <2>1, AheadOf
    <2> QED
      BY <1>2, <1>6, <2>1, <2>2, <2>3, SpanIsEnough
  <1>10. /\ Sequence!Ahead(next_ticket) \in 0..SequenceSpan - 1
         /\ Sequence!Ahead(next_ticket)' = Sequence!Ahead(next_ticket) - 1
    <2>1. Sequence!Ahead(serving_ticket) = 0
      BY <1>2, AheadOf
    <2>2. next_ticket # serving_ticket
      BY <1>4, <1>5, <2>1 DEF SequenceInv
    <2>3. Sequence!Ahead(next_ticket)' = IF next_ticket >= serving_ticket' THEN next_ticket - serving_ticket'
                                         ELSE next_ticket - serving_ticket' + SequenceSpan
      BY <1>1, <1>2, <1>6, SpanIsEnough DEF Sequence!Ahead
    <2>4. Sequence!Ahead(next_ticket) = IF next_ticket >= serving_ticket THEN next_ticket - serving_ticket
                                        ELSE next_ticket - serving_ticket + SequenceSpan
      BY <1>2, AheadOf
    <2> QED
      BY <1>2, <1>6, <2>2, <2>3, <2>4, SpanIsEnough
  <1>11. SequenceInv'
    <2>1. Cardinality(InUse') = Cardinality(InUse) - 1
      BY <1>4, UsersAreFew, FS_RemoveElement
    <2>2. Cardinality(InUse') = Sequence!Ahead(next_ticket)'
      BY <1>10, <2>1 DEF SequenceInv
    <2>3. ASSUME NEW u \in InUse'
          PROVE  Sequence!Ahead(sequence_ticket[u])' < Sequence!Ahead(next_ticket)'
      <3>1. u \in InUse \ {t} /\ Sequence!Ahead(sequence_ticket[u]) < Sequence!Ahead(next_ticket)
        BY <1>4 DEF SequenceInv
      <3> QED
        BY <1>9, <1>10, <3>1
    <2>4. \A u \in Sequence!Holding' : sequence_ticket'[u] = serving_ticket'
      BY <1>3, <1>4, <1>5 DEF SequenceInv, InUse
    <2>5. \A u, v \in InUse' : sequence_ticket'[u] = sequence_ticket'[v] => u = v
      BY <1>1, <1>4 DEF SequenceInv
    <2> QED
      BY <1>1, <1>2, <1>3, <1>6, <2>2, <2>3, <2>4, <2>5 DEF SequenceInv
  <1>12. Sequence!Before' = Sequence!Before
    <2>1. ASSUME NEW u \in Sequence!Waiting, NEW v \in Sequence!Waiting
          PROVE  (Sequence!Ahead(sequence_ticket[u]) < Sequence!Ahead(sequence_ticket[v]))'
                 <=> Sequence!Ahead(sequence_ticket[u]) < Sequence!Ahead(sequence_ticket[v])
      <3>1. u \in InUse \ {t} /\ v \in InUse \ {t}
        BY <1>3 DEF InUse
      <3> QED
        BY <1>9, <3>1
    <2> QED
      BY <1>3, <2>1 DEF Sequence!Before
  <1>13. Sequence!Wants' = [Sequence!Wants EXCEPT ![t] = {}]
    BY <1>3 DEF Sequence!Wants
  <1> QED
    BY <1>3, <1>11, <1>12, <1>13 DEF Sequence!Lock!Release

LEMMA SequenceStep ==
    SequenceInv /\ [Sequence!Next]_sequenceVars => SequenceInv' /\ [Sequence!Lock!Next]_(Sequence!Lock!vars)
  <1> SUFFICES ASSUME SequenceInv, [Sequence!Next]_sequenceVars
               PROVE  SequenceInv' /\ [Sequence!Lock!Next]_(Sequence!Lock!vars)
    OBVIOUS
  <1>1. ASSUME NEW t \in SequenceThreads, Sequence!TakeTicket(t)
        PROVE  SequenceInv' /\ [Sequence!Lock!Next]_(Sequence!Lock!vars)
    <2>1. SequenceInv' /\ Sequence!Lock!Idle(t) /\ Sequence!Lock!Request(t, {"runtime"})
      BY <1>1, TicketIsLast
    <2>2. {"runtime"} \in (SUBSET {"runtime"}) \ {{}}
      OBVIOUS
    <2> QED
      BY <2>1, <2>2 DEF Sequence!Lock!Next
  <1>2. ASSUME NEW t \in SequenceThreads, Sequence!Look(t)
        PROVE  SequenceInv' /\ [Sequence!Lock!Next]_(Sequence!Lock!vars)
    <2>1. CASE Sequence!Served(t)
      BY <1>2, <2>1, ServedIsFirst DEF Sequence!Lock!Next
    <2>2. CASE ~Sequence!Served(t)
      <3>1. /\ UNCHANGED <<next_ticket, serving_ticket, sequence_ticket>>
            /\ sequence_pc' \in [SequenceThreads -> {"Idle", "Awake", "Asleep", "Holding"}]
            /\ Sequence!Waiting' = Sequence!Waiting /\ Sequence!Holding' = Sequence!Holding
        BY <1>2, <2>2 DEF Sequence!Look, SequenceInv, Sequence!Waiting, Sequence!Holding
      <3> QED
        BY <3>1, SleepsOrWakesInSequence
    <2> QED
      BY <2>1, <2>2
  <1>3. ASSUME NEW t \in SequenceThreads, Sequence!WakeSpuriously(t)
        PROVE  SequenceInv' /\ [Sequence!Lock!Next]_(Sequence!Lock!vars)
    <2>1. /\ UNCHANGED <<next_ticket, serving_ticket, sequence_ticket>>
          /\ sequence_pc' \in [SequenceThreads -> {"Idle", "Awake", "Asleep", "Holding"}]
          /\ Sequence!Waiting' = Sequence!Waiting /\ Sequence!Holding' = Sequence!Holding
      BY <1>3 DEF Sequence!WakeSpuriously, SequenceInv, Sequence!Waiting, Sequence!Holding
    <2> QED
      BY <2>1, SleepsOrWakesInSequence
  <1>4. ASSUME NEW t \in SequenceThreads, Sequence!Drop(t)
        PROVE  SequenceInv' /\ [Sequence!Lock!Next]_(Sequence!Lock!vars)
    BY <1>4, DropServesNext DEF Sequence!Lock!Next
  <1>5. CASE UNCHANGED sequenceVars
    <2>1. /\ UNCHANGED <<next_ticket, serving_ticket, sequence_ticket>>
          /\ sequence_pc' \in [SequenceThreads -> {"Idle", "Awake", "Asleep", "Holding"}]
          /\ Sequence!Waiting' = Sequence!Waiting /\ Sequence!Holding' = Sequence!Holding
      BY <1>5 DEF sequenceVars, SequenceInv, Sequence!Waiting, Sequence!Holding
    <2> QED
      BY <2>1, SleepsOrWakesInSequence
  <1> QED
    BY <1>1, <1>2, <1>3, <1>4, <1>5 DEF Sequence!Next

-----------------------------------------------------------------------------
(* The leases.                                                             *)

States == {"New", "Asleep", "Woken", "Leased", "Done", "ShuttingDown",
           "MutationBlocked", "DataChanged"}
Destroying == {o \in Leases!Leased : Leases!Kind(o) = Leases!Destructive}

\* A ticket, queued not later than now, and outrun exactly if a version changed.
IsTicket(t) ==
    /\ t.kind \in Leases!Kinds
    /\ t.role_ids \subseteq Roles
    /\ t.queued_versions \in [t.role_ids -> Nat]

LeaseTypes ==
    /\ role_versions \in [Roles -> Nat]
    /\ Leases!Ticketed \subseteq Operations
    /\ \A o \in Leases!Ticketed : IsTicket(tickets[o])
    /\ lease_pc \in [Operations -> States]

\* The roles of a destructive lease are its own, and none of them is deleted.
Separate ==
    \A o \in Destroying :
        /\ Leases!RolesOf(o) \cap deleted = {}
        /\ \A p \in Destroying \ {o} : Leases!RolesOf(o) \cap Leases!RolesOf(p) = {}

\* A ticket that waits is outrun exactly if a version has changed since.
QueuedBefore(t) == \A r \in t.role_ids : t.queued_versions[r] <= role_versions[r]
OutrunIsChanged ==
    /\ \A o \in Leases!Waiting :
          /\ QueuedBefore(tickets[o])
          /\ Leases!VersionChanged(tickets[o]) <=> o \in outrun
    /\ \A o \in outrun \cap Operations : lease_pc[o] # "New"

\* Who waits or holds a lease has a ticket, and nobody else.
TicketsAreHeld ==
    \A o \in Operations :
        o \in Leases!Ticketed <=> lease_pc[o] \in {"Asleep", "Woken", "Leased"}

LeaseInv ==
    /\ LeaseTypes /\ Separate /\ OutrunIsChanged /\ TicketsAreHeld
    /\ BlockedUntilAborted /\ OutrunIsTurnedDown

\* notify_all only wakes: nobody starts or stops to wait.
LEMMA NotifyWakes ==
    ASSUME LeaseTypes, NEW o \in Operations, NEW state \in States \ {"Asleep"},
           lease_pc' = Leases!Notify([lease_pc EXCEPT ![o] = state])
    PROVE  /\ lease_pc' \in [Operations -> States]
           /\ lease_pc'[o] = state
           /\ \A u \in Operations \ {o} :
                 \/ lease_pc'[u] = lease_pc[u]
                 \/ lease_pc[u] = "Asleep" /\ lease_pc'[u] = "Woken"
  BY DEF LeaseTypes, Leases!Notify, States

LEMMA LeaseInit == Leases!Init => LeaseInv
  <1> SUFFICES ASSUME Leases!Init PROVE LeaseInv
    OBVIOUS
  <1>1. Leases!Ticketed = {} /\ outrun = {} /\ deleted = {} /\ blocked_role_ids = {}
    BY DEF Leases!Init, Leases!Ticketed
  <1>2. Destroying = {} /\ Leases!Leased = {} /\ Leases!Waiting = {}
    BY <1>1 DEF Destroying, Leases!Leased, Leases!Waiting
  <1>3. LeaseTypes
    BY <1>1 DEF LeaseTypes, Leases!Init, States
  <1>4. Separate /\ OutrunIsChanged /\ TicketsAreHeld
    BY <1>1, <1>2 DEF Separate, OutrunIsChanged, TicketsAreHeld, Leases!Init
  <1>5. BlockedUntilAborted
    BY <1>1, <1>2 DEF BlockedUntilAborted, Leases!BlockedUntilAborted, Destroying
  <1>6. OutrunIsTurnedDown
    BY <1>1, <1>2 DEF OutrunIsTurnedDown, Leases!OutrunIsTurnedDown, Leases!Init
  <1> QED
    BY <1>3, <1>4, <1>5, <1>6 DEF LeaseInv

\* What a step leaves of the tickets that it is not about.
LEMMA OthersStay ==
    ASSUME LeaseTypes, NEW o \in Operations,
           \A u \in Operations \ {o} :
               \/ lease_pc'[u] = lease_pc[u]
               \/ lease_pc[u] = "Asleep" /\ lease_pc'[u] = "Woken",
           Leases!Ticketed' \ {o} = Leases!Ticketed \ {o},
           \A u \in Leases!Ticketed \ {o} : tickets'[u] = tickets[u]
    PROVE  \A u \in Operations \ {o} :
               /\ u \in Leases!Waiting' <=> u \in Leases!Waiting
               /\ u \in Leases!Leased' <=> u \in Leases!Leased
               /\ u \in Destroying' <=> u \in Destroying
               /\ u \in Leases!Ticketed =>
                     Leases!Kind(u)' = Leases!Kind(u) /\ Leases!RolesOf(u)' = Leases!RolesOf(u)
               /\ lease_pc'[u] = "DataChanged" <=> lease_pc[u] = "DataChanged"
               /\ lease_pc'[u] = "New" <=> lease_pc[u] = "New"
  <1> SUFFICES ASSUME NEW u \in Operations \ {o}
               PROVE  /\ u \in Leases!Waiting' <=> u \in Leases!Waiting
                      /\ u \in Leases!Leased' <=> u \in Leases!Leased
                      /\ u \in Destroying' <=> u \in Destroying
                      /\ u \in Leases!Ticketed =>
                            /\ Leases!Kind(u)' = Leases!Kind(u)
                            /\ Leases!RolesOf(u)' = Leases!RolesOf(u)
                      /\ lease_pc'[u] = "DataChanged" <=> lease_pc[u] = "DataChanged"
                      /\ lease_pc'[u] = "New" <=> lease_pc[u] = "New"
    OBVIOUS
  <1>1. u \in Leases!Ticketed' <=> u \in Leases!Ticketed
    OBVIOUS
  <1>2. u \in Leases!Waiting' <=> u \in Leases!Waiting
    BY <1>1 DEF Leases!Waiting
  <1>3. u \in Leases!Leased' <=> u \in Leases!Leased
    BY <1>1 DEF Leases!Leased
  <1>4. u \in Leases!Ticketed =>
           Leases!Kind(u)' = Leases!Kind(u) /\ Leases!RolesOf(u)' = Leases!RolesOf(u)
    BY DEF Leases!Kind, Leases!RolesOf
  <1>5. u \in Destroying' <=> u \in Destroying
    BY <1>3, <1>4 DEF Destroying, Leases!Leased
  <1> QED
    BY <1>2, <1>3, <1>4, <1>5

\* The lease, the refusal or the wait of one operation, with the ticket it has
\* had, or has been given just now.
LEMMA LookInv ==
    ASSUME LeaseInv, NEW o \in Operations, lease_pc[o] \in {"New", "Woken"},
           NEW queue, NEW given, Leases!Look(o, queue, given), UNCHANGED deleted,
           DOMAIN given = Leases!Ticketed \union {o},
           \A u \in Leases!Ticketed \ {o} : given[u] = tickets[u],
           IsTicket(given[o]), QueuedBefore(given[o]),
           Leases!VersionChanged(given[o]) <=> o \in outrun,
           o \in Leases!Ticketed => given[o] = tickets[o]
    PROVE  LeaseInv'
  <1> DEFINE t == given[o]
             outcome == Leases!Outcome(o, queue, given)
  <1> USE DEF LeaseInv
  <1>0. outcome \in States \ {"New", "Woken", "Done"}
    BY DEF Leases!Outcome, States
  <1>1. o \notin Leases!Leased /\ o \notin Destroying
    BY DEF Leases!Leased, Destroying
  <1>2. lease_pc'[o] = outcome /\ lease_pc' \in [Operations -> States]
        /\ \A u \in Operations \ {o} :
              \/ lease_pc'[u] = lease_pc[u]
              \/ lease_pc[u] = "Asleep" /\ lease_pc'[u] = "Woken"
    <2>1. CASE outcome \in {"Asleep", "Leased"}
      <3>1. lease_pc' = [lease_pc EXCEPT ![o] = outcome]
        BY <2>1 DEF Leases!Look
      <3> HIDE DEF outcome
      <3> QED
        BY <3>1, <1>0 DEF LeaseTypes
    <2>2. CASE outcome \notin {"Asleep", "Leased"}
      <3>1. lease_pc' = Leases!Notify([lease_pc EXCEPT ![o] = outcome])
        BY <2>2 DEF Leases!Look
      <3> HIDE DEF outcome
      <3> QED
        BY <3>1, <2>2, <1>0, NotifyWakes
    <2> QED
      BY <2>1, <2>2
  <1>3. /\ Leases!Ticketed' = IF outcome \in {"Asleep", "Leased"}
                              THEN Leases!Ticketed \union {o} ELSE Leases!Ticketed \ {o}
        /\ \A u \in Leases!Ticketed \ {o} : tickets'[u] = tickets[u]
        /\ outcome \in {"Asleep", "Leased"} => tickets'[o] = t
    <2>1. CASE outcome \in {"Asleep", "Leased"}
      <3>1. tickets' = given
        BY <2>1 DEF Leases!Look
      <3> QED
        BY <2>1, <3>1 DEF Leases!Ticketed
    <2>2. CASE outcome \notin {"Asleep", "Leased"}
      <3>1. tickets' = [u \in DOMAIN given \ {o} |-> given[u]]
        BY <2>2 DEF Leases!Look, Leases!RemoveTicket
      <3> QED
        BY <2>2, <3>1 DEF Leases!Ticketed
    <2> QED
      BY <2>1, <2>2
  <1>4. /\ outcome = "Leased" => Leases!Granted(t)
        /\ outcome # "Leased" => UNCHANGED <<role_versions, blocked_role_ids, outrun>>
    BY DEF Leases!Look
  <1>5. /\ outcome = "Leased" => t.role_ids \cap blocked_role_ids = {}
        /\ outcome = "Leased" /\ t.kind = Leases!Normal => o \notin outrun
        /\ outcome = "DataChanged" => o \in outrun
    BY DEF Leases!Outcome
  <1> HIDE DEF outcome, t
  <1>6. \A u \in Operations \ {o} :
           /\ u \in Leases!Waiting' <=> u \in Leases!Waiting
           /\ u \in Leases!Leased' <=> u \in Leases!Leased
           /\ u \in Destroying' <=> u \in Destroying
           /\ u \in Leases!Ticketed =>
                 Leases!Kind(u)' = Leases!Kind(u) /\ Leases!RolesOf(u)' = Leases!RolesOf(u)
           /\ lease_pc'[u] = "DataChanged" <=> lease_pc[u] = "DataChanged"
           /\ lease_pc'[u] = "New" <=> lease_pc[u] = "New"
    <2>1. Leases!Ticketed' \ {o} = Leases!Ticketed \ {o}
      BY <1>3
    <2> QED
      BY <1>2, <1>3, <2>1, OthersStay
  <1>7. IsTicket(t) /\ QueuedBefore(t) /\ (Leases!VersionChanged(t) <=> o \in outrun)
    BY DEF t
  <1>8. /\ o \in Leases!Waiting' <=> outcome = "Asleep"
        /\ o \in Leases!Leased' <=> outcome = "Leased"
        /\ outcome \in {"Asleep", "Leased"} =>
              Leases!Kind(o)' = t.kind /\ Leases!RolesOf(o)' = t.role_ids
        /\ o \in Destroying' <=> outcome = "Leased" /\ t.kind = Leases!Destructive
    <2>1. /\ o \in Leases!Waiting' <=> outcome = "Asleep"
          /\ o \in Leases!Leased' <=> outcome = "Leased"
      BY <1>2, <1>3, <1>0 DEF Leases!Waiting, Leases!Leased
    <2>2. outcome \in {"Asleep", "Leased"} =>
              Leases!Kind(o)' = t.kind /\ Leases!RolesOf(o)' = t.role_ids
      BY <1>3 DEF Leases!Kind, Leases!RolesOf
    <2> QED
      BY <2>1, <2>2 DEF Destroying, Leases!Destructive
  <1>9. /\ role_versions' \in [Roles -> Nat]
        /\ \A r \in Roles : role_versions'[r] >= role_versions[r]
        /\ outrun \subseteq outrun'
    BY <1>4 DEF LeaseTypes, Leases!Granted
  <1>10. LeaseTypes'
    <2>1. Leases!Ticketed' \subseteq Operations
      BY <1>3 DEF LeaseTypes
    <2>2. \A u \in Leases!Ticketed' : IsTicket(tickets'[u])
      BY <1>3, <1>7 DEF LeaseTypes
    <2> QED
      BY <1>2, <1>9, <2>1, <2>2 DEF LeaseTypes, IsTicket
  <1>11. Destroying' \subseteq Operations /\ Destroying \subseteq Leases!Ticketed
         /\ Leases!Ticketed \subseteq Operations /\ Leases!Waiting \subseteq Leases!Ticketed
         /\ Leases!Leased \subseteq Leases!Ticketed
         /\ Leases!Leased' \subseteq Operations /\ Leases!Waiting' \subseteq Operations
    BY <1>10 DEF LeaseTypes, Destroying, Leases!Leased, Leases!Waiting
  <1>12. Separate' /\ BlockedUntilAborted'
    <2>1. CASE outcome = "Leased" /\ t.kind = Leases!Destructive
      <3>1. Destroying' = Destroying \union {o}
        BY <1>6, <1>8, <1>11, <2>1
      <3>2. blocked_role_ids' = blocked_role_ids \union t.role_ids
        BY <1>4, <2>1 DEF Leases!Granted
      <3>3. /\ t.role_ids \cap deleted = {}
            /\ \A p \in Destroying : Leases!RolesOf(p) \cap t.role_ids = {}
        BY <1>5, <2>1 DEF BlockedUntilAborted, Leases!BlockedUntilAborted, Destroying
      <3>4. \A p \in Destroying : p # o /\ Leases!RolesOf(p)' = Leases!RolesOf(p)
        BY <1>1, <1>6, <1>11
      <3>5. Leases!RolesOf(o)' = t.role_ids
        BY <1>8, <2>1
      <3>6. Separate'
        BY <3>1, <3>3, <3>4, <3>5 DEF Separate
      <3>7. BlockedUntilAborted'
        BY <3>1, <3>2, <3>4, <3>5
           DEF BlockedUntilAborted, Leases!BlockedUntilAborted, Destroying
      <3> QED
        BY <3>6, <3>7
    <2>2. CASE ~(outcome = "Leased" /\ t.kind = Leases!Destructive)
      <3>1. Destroying' = Destroying
        BY <1>1, <1>6, <1>8, <1>11, <2>2
      <3>2. blocked_role_ids' = blocked_role_ids
        BY <1>4, <2>2 DEF Leases!Granted
      <3>3. \A p \in Destroying : Leases!RolesOf(p)' = Leases!RolesOf(p)
        BY <1>1, <1>6, <1>11
      <3>4. Separate'
        BY <3>1, <3>3 DEF Separate
      <3>5. BlockedUntilAborted'
        BY <3>1, <3>2, <3>3 DEF BlockedUntilAborted, Leases!BlockedUntilAborted, Destroying
      <3> QED
        BY <3>4, <3>5
    <2> QED
      BY <2>1, <2>2
  <1>13. OutrunIsTurnedDown'
    <2>1. \A u \in Leases!Leased : u \notin Leases!Waiting
      BY DEF Leases!Leased, Leases!Waiting
    <2>2. \A u \in outrun' \ outrun :
             u \in Leases!Waiting /\ outcome = "Leased" /\ t.kind = Leases!Recoverable
      BY <1>4 DEF Leases!Granted
    <2>3. \A u \in Operations \ {o} :
             /\ u \in Leases!Leased' /\ Leases!Kind(u)' = Leases!Normal => u \notin outrun'
             /\ lease_pc'[u] = "DataChanged" => u \in outrun'
      BY <1>6, <1>9, <1>11, <2>1, <2>2
         DEF OutrunIsTurnedDown, Leases!OutrunIsTurnedDown
    <2>4. o \in Leases!Leased' /\ Leases!Kind(o)' = Leases!Normal => o \notin outrun'
      BY <1>5, <1>8, <2>2 DEF Leases!Normal, Leases!Recoverable
    <2>5. lease_pc'[o] = "DataChanged" => o \in outrun'
      BY <1>2, <1>5, <1>9
    <2> QED
      BY <2>3, <2>4, <2>5 DEF OutrunIsTurnedDown, Leases!OutrunIsTurnedDown
  <1>14. OutrunIsChanged'
    <2>1. \A u \in outrun' \cap Operations : lease_pc'[u] # "New"
      <3>1. \A u \in outrun' \ outrun : u \in Leases!Waiting
        BY <1>4 DEF Leases!Granted
      <3>2. \A u \in Leases!Waiting : lease_pc[u] # "New"
        BY DEF Leases!Waiting
      <3> QED
        BY <1>0, <1>2, <1>6, <3>1, <3>2 DEF OutrunIsChanged
    <2>2. ASSUME NEW u \in Leases!Waiting', u # o
          PROVE  /\ QueuedBefore(tickets[u])'
                 /\ Leases!VersionChanged(tickets[u])' <=> u \in outrun'
      <3>1. /\ u \in Leases!Waiting /\ u \in Leases!Ticketed /\ tickets'[u] = tickets[u]
            /\ IsTicket(tickets[u])
        BY <1>3, <1>6, <1>11, <2>2 DEF LeaseTypes
      <3> DEFINE q == tickets[u]
      <3>2. /\ QueuedBefore(q) /\ (Leases!VersionChanged(q) <=> u \in outrun) /\ IsTicket(q)
            /\ tickets'[u] = q /\ q.role_ids = Leases!RolesOf(u)
        BY <3>1 DEF OutrunIsChanged, Leases!RolesOf
      <3> HIDE DEF q
      <3>3. CASE outcome = "Leased" /\ t.kind = Leases!Recoverable
        <4>1. /\ \A r \in Roles : role_versions'[r] =
                     IF r \in t.role_ids THEN role_versions[r] + 1 ELSE role_versions[r]
              /\ u \in outrun' <=> u \in outrun \/ q.role_ids \cap t.role_ids # {}
          BY <1>4, <3>1, <3>2, <3>3 DEF Leases!Granted
        <4>2. q.role_ids \subseteq Roles /\ \A r \in q.role_ids : q.queued_versions[r] \in Nat
          BY <3>2 DEF IsTicket
        <4>3. \A r \in q.role_ids :
                 /\ role_versions[r] \in Nat /\ q.queued_versions[r] <= role_versions[r]
          BY <3>2, <4>2 DEF QueuedBefore, LeaseTypes
        <4>4. \A r \in q.role_ids :
                 /\ q.queued_versions[r] <= role_versions'[r]
                 /\ role_versions'[r] # q.queued_versions[r] <=>
                       role_versions[r] # q.queued_versions[r] \/ r \in t.role_ids
          BY <4>1, <4>2, <4>3
        <4> QED
          BY <3>2, <4>1, <4>4 DEF QueuedBefore, Leases!VersionChanged
      <3>4. CASE ~(outcome = "Leased" /\ t.kind = Leases!Recoverable)
        <4>1. role_versions' = role_versions /\ outrun' = outrun
          BY <1>4, <3>4 DEF Leases!Granted, LeaseTypes
        <4> QED
          BY <3>2, <4>1 DEF QueuedBefore, Leases!VersionChanged
      <3> QED
        BY <3>3, <3>4
    <2>3. ASSUME o \in Leases!Waiting'
          PROVE  /\ QueuedBefore(tickets[o])'
                 /\ Leases!VersionChanged(tickets[o])' <=> o \in outrun'
      <3>1. tickets'[o] = t /\ UNCHANGED <<role_versions, outrun>>
        BY <1>3, <1>4, <1>8, <2>3
      <3> QED
        BY <1>7, <3>1 DEF QueuedBefore, Leases!VersionChanged
    <2> QED
      BY <2>1, <2>2, <2>3 DEF OutrunIsChanged
  <1>15. TicketsAreHeld'
    <2>1. ASSUME NEW u \in Operations \ {o}
          PROVE  u \in Leases!Ticketed' <=> lease_pc'[u] \in {"Asleep", "Woken", "Leased"}
      BY <1>2, <1>3 DEF TicketsAreHeld
    <2>2. o \in Leases!Ticketed' <=> lease_pc'[o] \in {"Asleep", "Woken", "Leased"}
      BY <1>0, <1>2, <1>3
    <2> QED
      BY <2>1, <2>2 DEF TicketsAreHeld
  <1> QED
    BY <1>10, <1>12, <1>13, <1>14, <1>15

LEMMA AcquireInv ==
    ASSUME LeaseInv, NEW o \in Operations, NEW kind \in Leases!Kinds,
           NEW R \in (SUBSET Roles) \ {{}}, Leases!Acquire(o, kind, R)
    PROVE  LeaseInv'
  <1> DEFINE t == [kind |-> kind, role_ids |-> R,
                   queued_versions |-> [r \in R |-> role_versions[r]]]
             given == [u \in Leases!Ticketed \union {o} |-> IF u = o THEN t ELSE tickets[u]]
  <1>1. /\ lease_pc[o] = "New" /\ UNCHANGED deleted
        /\ Leases!Look(o, Leases!Queued(o, R), given)
    BY DEF Leases!Acquire
  <1>2. IsTicket(t) /\ QueuedBefore(t) /\ ~Leases!VersionChanged(t)
    BY DEF LeaseInv, LeaseTypes, IsTicket, QueuedBefore, Leases!VersionChanged
  <1>3. o \notin outrun
    BY <1>1 DEF LeaseInv, OutrunIsChanged
  <1>4. /\ DOMAIN given = Leases!Ticketed \union {o} /\ given[o] = t
        /\ \A u \in Leases!Ticketed \ {o} : given[u] = tickets[u]
    OBVIOUS
  <1> HIDE DEF t
  <1> HIDE DEF given
  <1>5. CASE o \notin Leases!Ticketed
    BY <1>1, <1>2, <1>3, <1>4, <1>5, LookInv
  <1>6. o \notin Leases!Ticketed
    BY <1>1 DEF LeaseInv, TicketsAreHeld
  <1> QED
    BY <1>5, <1>6

LEMMA RecheckInv ==
    ASSUME LeaseInv, NEW o \in Operations, Leases!Recheck(o)
    PROVE  LeaseInv'
  <1>1. /\ lease_pc[o] = "Woken" /\ UNCHANGED deleted
        /\ Leases!Look(o, queues, tickets)
    BY DEF Leases!Recheck
  <1>2. o \in Leases!Ticketed
    BY <1>1 DEF LeaseInv, TicketsAreHeld
  <1>3. /\ o \in Leases!Waiting /\ DOMAIN tickets = Leases!Ticketed \union {o}
        /\ \A u \in Leases!Ticketed \ {o} : tickets[u] = tickets[u]
    BY <1>1, <1>2 DEF Leases!Waiting, Leases!Ticketed
  <1>4. /\ IsTicket(tickets[o]) /\ QueuedBefore(tickets[o])
        /\ Leases!VersionChanged(tickets[o]) <=> o \in outrun
    BY <1>2, <1>3 DEF LeaseInv, LeaseTypes, OutrunIsChanged
  <1> QED
    BY <1>1, <1>3, <1>4, LookInv

\* A lease that ends takes its ticket with it.
LEMMA EndedFacts ==
    ASSUME LeaseInv, NEW o \in Operations, Leases!Ended(o)
    PROVE  /\ o \in Leases!Leased
           /\ Leases!Leased' = Leases!Leased \ {o}
           /\ Destroying' = Destroying \ {o}
           /\ \A u \in Leases!Ticketed \ {o} :
                 Leases!Kind(u)' = Leases!Kind(u) /\ Leases!RolesOf(u)' = Leases!RolesOf(u)
           /\ Destroying \subseteq Leases!Ticketed
           /\ LeaseTypes' /\ OutrunIsChanged' /\ OutrunIsTurnedDown' /\ TicketsAreHeld'
  <1> USE DEF LeaseInv
  <1>1. /\ lease_pc[o] = "Leased"
        /\ lease_pc' = Leases!Notify([lease_pc EXCEPT ![o] = "Done"])
        /\ tickets' = [u \in DOMAIN tickets \ {o} |-> tickets[u]]
        /\ UNCHANGED <<role_versions, outrun>>
    BY DEF Leases!Ended, Leases!RemoveTicket
  <1>2. lease_pc'[o] = "Done" /\ lease_pc' \in [Operations -> States]
        /\ \A u \in Operations \ {o} :
              \/ lease_pc'[u] = lease_pc[u]
              \/ lease_pc[u] = "Asleep" /\ lease_pc'[u] = "Woken"
    BY <1>1, NotifyWakes DEF States
  <1>3. /\ Leases!Ticketed' = Leases!Ticketed \ {o}
        /\ \A u \in Leases!Ticketed \ {o} : tickets'[u] = tickets[u]
    BY <1>1 DEF Leases!Ticketed
  <1>4. o \in Leases!Ticketed /\ o \in Leases!Leased
    BY <1>1 DEF TicketsAreHeld, Leases!Leased
  <1>5. \A u \in Operations \ {o} :
           /\ u \in Leases!Waiting' <=> u \in Leases!Waiting
           /\ u \in Leases!Leased' <=> u \in Leases!Leased
           /\ u \in Destroying' <=> u \in Destroying
           /\ u \in Leases!Ticketed =>
                 Leases!Kind(u)' = Leases!Kind(u) /\ Leases!RolesOf(u)' = Leases!RolesOf(u)
           /\ lease_pc'[u] = "DataChanged" <=> lease_pc[u] = "DataChanged"
           /\ lease_pc'[u] = "New" <=> lease_pc[u] = "New"
    <2>1. Leases!Ticketed' \ {o} = Leases!Ticketed \ {o}
      BY <1>3
    <2> QED
      BY <1>2, <1>3, <2>1, OthersStay
  <1>6. o \notin Leases!Leased' /\ o \notin Leases!Waiting' /\ o \notin Destroying'
    BY <1>3 DEF Leases!Leased, Leases!Waiting, Destroying
  <1>7. LeaseTypes'
    BY <1>1, <1>2, <1>3 DEF LeaseTypes, IsTicket
  <1>8. /\ Leases!Leased \subseteq Operations /\ Leases!Leased' \subseteq Operations
        /\ Leases!Waiting' \subseteq Operations /\ Leases!Waiting \subseteq Leases!Ticketed
        /\ Destroying \subseteq Leases!Ticketed /\ Destroying' \subseteq Operations
        /\ Leases!Ticketed \subseteq Operations
    BY <1>7 DEF LeaseTypes, Leases!Leased, Leases!Waiting, Destroying
  <1>9. Leases!Leased' = Leases!Leased \ {o} /\ Destroying' = Destroying \ {o}
    BY <1>5, <1>6, <1>8
  <1>10. OutrunIsChanged'
    <2>1. \A u \in Leases!Waiting' :
             u \in Leases!Waiting /\ u \in Leases!Ticketed \ {o} /\ tickets'[u] = tickets[u]
      BY <1>3, <1>5, <1>6, <1>8
    <2>2. \A u \in outrun' \cap Operations : lease_pc'[u] # "New"
      BY <1>1, <1>2, <1>5 DEF OutrunIsChanged
    <2>3. ASSUME NEW u \in Leases!Waiting'
          PROVE  /\ QueuedBefore(tickets[u])'
                 /\ Leases!VersionChanged(tickets[u])' <=> u \in outrun'
      <3>1. tickets'[u] = tickets[u] /\ UNCHANGED <<role_versions, outrun>>
        BY <1>1, <2>1
      <3>2. QueuedBefore(tickets[u]) /\ (Leases!VersionChanged(tickets[u]) <=> u \in outrun)
        BY <2>1 DEF OutrunIsChanged
      <3> QED
        BY <3>1, <3>2 DEF QueuedBefore, Leases!VersionChanged
    <2> QED
      BY <2>2, <2>3 DEF OutrunIsChanged
  <1>11. OutrunIsTurnedDown'
    <2>1. \A u \in Leases!Leased' : u # o /\ u \in Leases!Leased
             /\ Leases!Kind(u)' = Leases!Kind(u)
      BY <1>5, <1>8, <1>9 DEF Leases!Leased
    <2>2. \A u \in Operations : lease_pc'[u] = "DataChanged" => lease_pc[u] = "DataChanged"
      BY <1>2, <1>5
    <2> QED
      BY <1>1, <2>1, <2>2 DEF OutrunIsTurnedDown, Leases!OutrunIsTurnedDown
  <1>12. TicketsAreHeld'
    BY <1>2, <1>3 DEF TicketsAreHeld
  <1> QED
    BY <1>4, <1>5, <1>7, <1>8, <1>9, <1>10, <1>11, <1>12 DEF LeaseTypes

\* Whichever of its roles stay blocked are those it has deleted.
LEMMA EndingInv ==
    ASSUME LeaseInv, NEW o \in Operations,
           Leases!Complete(o) \/ Leases!Abort(o)
           \/ \E retained \in SUBSET Leases!RolesOf(o) : Leases!CompleteRetained(o, retained)
    PROVE  LeaseInv'
  <1> USE DEF LeaseInv
  <1>1. Leases!Ended(o)
    BY DEF Leases!Complete, Leases!Abort, Leases!CompleteRetained
  <1>2. /\ o \in Leases!Leased
        /\ Destroying' = Destroying \ {o}
        /\ \A u \in Destroying \ {o} : Leases!RolesOf(u)' = Leases!RolesOf(u)
        /\ LeaseTypes' /\ OutrunIsChanged' /\ OutrunIsTurnedDown' /\ TicketsAreHeld'
    BY <1>1, EndedFacts
  <1> DEFINE R == Leases!RolesOf(o)
  <1>3. CASE Leases!Kind(o) # Leases!Destructive
    <2>1. UNCHANGED <<deleted, blocked_role_ids>> /\ o \notin Destroying
      BY <1>3 DEF Leases!Complete, Leases!Abort, Leases!CompleteRetained, Destroying
    <2>2. Separate'
      BY <1>2, <2>1 DEF Separate
    <2>3. BlockedUntilAborted'
      BY <1>2, <2>1 DEF BlockedUntilAborted, Leases!BlockedUntilAborted, Destroying
    <2> QED
      BY <1>2, <2>2, <2>3
  <1>4. CASE Leases!Kind(o) = Leases!Destructive
    <2>1. PICK kept \in SUBSET R :
             /\ deleted' = deleted \union kept
             /\ blocked_role_ids' = blocked_role_ids \ (R \ kept)
      <3>1. CASE Leases!Complete(o)
        <4>1. deleted' = deleted \union R /\ blocked_role_ids' = blocked_role_ids \ (R \ R)
          BY <1>4, <3>1 DEF Leases!Complete
        <4> QED
          BY <4>1
      <3>2. CASE Leases!Abort(o)
        <4>1. deleted' = deleted \union {} /\ blocked_role_ids' = blocked_role_ids \ (R \ {})
          BY <1>4, <3>2 DEF Leases!Abort
        <4> QED
          BY <4>1
      <3>3. ASSUME NEW retained \in SUBSET R, Leases!CompleteRetained(o, retained)
            PROVE  \E kept \in SUBSET R :
                      /\ deleted' = deleted \union kept
                      /\ blocked_role_ids' = blocked_role_ids \ (R \ kept)
        BY <3>3 DEF Leases!CompleteRetained, Leases!Reopened
      <3> QED
        BY <3>1, <3>2, <3>3
    <2>2. o \in Destroying
      BY <1>2, <1>4 DEF Destroying
    <2>3. /\ \A p \in Destroying \ {o} : Leases!RolesOf(p) \cap R = {}
          /\ \A p \in Destroying \ {o} : Leases!RolesOf(p) \cap deleted = {}
          /\ R \cap deleted = {}
      BY <2>2 DEF Separate
    <2>4. blocked_role_ids = deleted \union UNION {Leases!RolesOf(p) : p \in Destroying}
      BY DEF BlockedUntilAborted, Leases!BlockedUntilAborted, Destroying
    <2> HIDE DEF R
    <2>5. Separate'
      BY <1>2, <2>1, <2>3 DEF Separate
    <2>6. {Leases!RolesOf(p)' : p \in Destroying'} = {Leases!RolesOf(p) : p \in Destroying \ {o}}
      BY <1>2
    <2>7. UNION {Leases!RolesOf(p) : p \in Destroying} =
             R \union UNION {Leases!RolesOf(p) : p \in Destroying \ {o}}
      BY <2>2 DEF R
    <2> DEFINE rest == UNION {Leases!RolesOf(p) : p \in Destroying \ {o}}
    <2>8. \A x \in rest : x \notin R
      BY <2>3
    <2>9. blocked_role_ids' = deleted' \union UNION {Leases!RolesOf(p)' : p \in Destroying'}
      <3>1. UNION {Leases!RolesOf(p)' : p \in Destroying'} = rest
        BY <2>6
      <3>2. blocked_role_ids = deleted \union (R \union rest)
        BY <2>4, <2>7
      <3> HIDE DEF rest
      <3>3. blocked_role_ids' = deleted' \union rest
        BY <2>1, <2>3, <2>8, <3>2
      <3> QED
        BY <3>1, <3>3
    <2>10. BlockedUntilAborted'
      BY <2>9 DEF BlockedUntilAborted, Leases!BlockedUntilAborted, Destroying
    <2> QED
      BY <1>2, <2>5, <2>10
  <1> QED
    BY <1>3, <1>4

\* Steps that only wake, or turn down an operation that has no ticket.
LEMMA QuietLeaseInv ==
    ASSUME LeaseInv,
           UNCHANGED <<blocked_role_ids, role_versions, tickets, outrun, deleted>>,
           lease_pc' \in [Operations -> States],
           \A u \in Operations :
               \/ lease_pc'[u] = lease_pc[u]
               \/ lease_pc[u] = "Asleep" /\ lease_pc'[u] = "Woken"
               \/ lease_pc[u] = "New" /\ lease_pc'[u] = "ShuttingDown"
    PROVE  LeaseInv'
  <1> USE DEF LeaseInv
  <1>1. Leases!Ticketed' = Leases!Ticketed /\ Leases!Ticketed \subseteq Operations
    BY DEF Leases!Ticketed, LeaseTypes
  <1>2. /\ Leases!Leased' = Leases!Leased
        /\ Leases!Waiting' = Leases!Waiting
    BY <1>1 DEF Leases!Leased, Leases!Waiting, TicketsAreHeld
  <1>3. Destroying' = Destroying
    BY <1>2 DEF Destroying, Leases!Kind
  <1>4. LeaseTypes' /\ TicketsAreHeld'
    BY <1>1 DEF LeaseTypes, IsTicket, TicketsAreHeld
  <1>5. Separate' /\ BlockedUntilAborted'
    BY <1>3 DEF Separate, Leases!RolesOf, BlockedUntilAborted, Leases!BlockedUntilAborted,
                Destroying
  <1>6. OutrunIsChanged'
    BY <1>2 DEF OutrunIsChanged, QueuedBefore, Leases!VersionChanged
  <1>7. OutrunIsTurnedDown'
    BY <1>2 DEF OutrunIsTurnedDown, Leases!OutrunIsTurnedDown, Leases!Kind
  <1> QED
    BY <1>4, <1>5, <1>6, <1>7

LEMMA LeaseStep == LeaseInv /\ [Leases!Next]_leaseVars => LeaseInv'
  <1> SUFFICES ASSUME LeaseInv, [Leases!Next]_leaseVars PROVE LeaseInv'
    OBVIOUS
  <1>0. lease_pc \in [Operations -> States]
    BY DEF LeaseInv, LeaseTypes
  <1>1. ASSUME NEW o \in Operations, NEW kind \in Leases!Kinds,
               NEW R \in (SUBSET Roles) \ {{}}, Leases!Acquire(o, kind, R)
        PROVE  LeaseInv'
    BY <1>1, AcquireInv
  <1>2. ASSUME NEW o \in Operations, Leases!Recheck(o)
        PROVE  LeaseInv'
    BY <1>2, RecheckInv
  <1>3. ASSUME NEW o \in Operations,
               \/ Leases!Complete(o) \/ Leases!Abort(o)
               \/ \E retained \in SUBSET Leases!RolesOf(o) :
                     Leases!CompleteRetained(o, retained)
        PROVE  LeaseInv'
    BY <1>3, EndingInv
  <1>4. ASSUME NEW o \in Operations, Leases!AcquireTurnedDown(o) \/ Leases!WakeSpuriously(o)
        PROVE  LeaseInv'
    <2>1. /\ UNCHANGED <<blocked_role_ids, role_versions, tickets, outrun, deleted>>
          /\ \/ lease_pc[o] = "New" /\ lease_pc' = [lease_pc EXCEPT ![o] = "ShuttingDown"]
             \/ lease_pc[o] = "Asleep" /\ lease_pc' = [lease_pc EXCEPT ![o] = "Woken"]
      BY <1>4 DEF Leases!AcquireTurnedDown, Leases!WakeSpuriously
    <2>2. lease_pc' \in [Operations -> States]
      BY <1>0, <2>1 DEF States
    <2>3. \A u \in Operations :
             \/ lease_pc'[u] = lease_pc[u]
             \/ lease_pc[u] = "Asleep" /\ lease_pc'[u] = "Woken"
             \/ lease_pc[u] = "New" /\ lease_pc'[u] = "ShuttingDown"
      BY <1>0, <2>1
    <2> QED
      BY <2>1, <2>2, <2>3, QuietLeaseInv
  <1>5. CASE Leases!BeginShutdown
    <2>1. /\ UNCHANGED <<blocked_role_ids, role_versions, tickets, outrun, deleted>>
          /\ lease_pc' = Leases!Notify(lease_pc)
      BY <1>5 DEF Leases!BeginShutdown
    <2>2. lease_pc' \in [Operations -> States]
          /\ \A u \in Operations :
                \/ lease_pc'[u] = lease_pc[u]
                \/ lease_pc[u] = "Asleep" /\ lease_pc'[u] = "Woken"
      BY <1>0, <2>1 DEF Leases!Notify, States
    <2> QED
      BY <2>1, <2>2, QuietLeaseInv
  <1>6. CASE UNCHANGED leaseVars
    BY <1>0, <1>6, QuietLeaseInv DEF leaseVars
  <1> QED
    BY <1>1, <1>2, <1>3, <1>4, <1>5, <1>6 DEF Leases!Next

-----------------------------------------------------------------------------
(* The leases serve in order.                                              *)

\* a lists p before o
Lists(a, p, o) == \E j \in 1..Len(a) : \E i \in 1..(j - 1) : a[i] = p /\ a[j] = o

Once(a) == \A i, j \in 1..Len(a) : a[i] = a[j] => i = j

\* The queue of a role holds those with a ticket for it, in the order of a.
Fits(q, r, given, a) ==
    /\ \A i \in 1..Len(q) : q[i] \in DOMAIN given /\ r \in given[q[i]].role_ids
    /\ \A o \in DOMAIN given :
          r \in given[o].role_ids => \E i \in 1..Len(q) : q[i] = o
    /\ \A j \in 1..Len(q) : \A i \in 1..(j - 1) : Lists(a, q[i], q[j])

LEMMA ListedOnce ==
    ASSUME NEW a \in Seq(Operations), Once(a), NEW p, NEW o, Lists(a, p, o)
    PROVE  p # o /\ ~Lists(a, o, p)
  <1>1. PICK j \in 1..Len(a) : \E i \in 1..(j - 1) : a[i] = p /\ a[j] = o
    BY DEF Lists
  <1>2. PICK i \in 1..(j - 1) : a[i] = p /\ a[j] = o
    BY <1>1
  <1>3. Len(a) \in Nat /\ i \in 1..Len(a) /\ i < j
    OBVIOUS
  <1>4. p # o
    BY <1>2, <1>3 DEF Once
  <1>5. ASSUME Lists(a, o, p) PROVE FALSE
    <2>1. PICK n \in 1..Len(a) : \E m \in 1..(n - 1) : a[m] = o /\ a[n] = p
      BY <1>5 DEF Lists
    <2>2. PICK m \in 1..(n - 1) : a[m] = o /\ a[n] = p
      BY <2>1
    <2>3. m \in 1..Len(a) /\ m < n
      BY <1>3
    <2>4. m = j /\ n = i
      BY <1>2, <1>3, <2>2, <2>3 DEF Once
    <2> QED
      BY <1>3, <2>3, <2>4
  <1> QED
    BY <1>4, <1>5

\* b lists those of a, in the order of a, and then o.
Adds(a, o, b) ==
    /\ b \in Seq(Operations) /\ Once(b)
    /\ \A p : (\E i \in 1..Len(b) : b[i] = p) <=> p = o \/ \E i \in 1..Len(a) : a[i] = p
    /\ \A p, u : p # o /\ u # o => (Lists(b, p, u) <=> Lists(a, p, u))
    /\ \A p : (\E i \in 1..Len(a) : a[i] = p) => Lists(b, p, o)
    /\ \A p : ~Lists(b, o, p)

LEMMA ListedLast ==
    ASSUME NEW a \in Seq(Operations), Once(a), NEW o \in Operations,
           \A i \in 1..Len(a) : a[i] # o, NEW b, b = Append(a, o)
    PROVE  Adds(a, o, b)
  <1> DEFINE n == Len(a) + 1
  <1>1. /\ Len(a) \in Nat /\ b \in Seq(Operations) /\ Len(b) = n /\ b[n] = o
        /\ \A i \in 1..Len(a) : b[i] = a[i]
    BY AppendProperties
  <1>2. \A i \in 1..n : i = n \/ i \in 1..Len(a)
    BY <1>1
  <1>3. Once(b)
    <2>1. \A i \in 1..n : b[i] = o <=> i = n
      BY <1>1, <1>2
    <2> QED
      BY <1>1, <1>2, <2>1 DEF Once
  <1>4. ASSUME NEW p
        PROVE  (\E i \in 1..Len(b) : b[i] = p) <=> p = o \/ \E i \in 1..Len(a) : a[i] = p
    BY <1>1, <1>2
  <1>5. ASSUME NEW p, NEW u, p # o, u # o PROVE Lists(b, p, u) <=> Lists(a, p, u)
    <2>1. \A j \in 1..n : \A i \in 1..(j - 1) : i \in 1..Len(a) /\ b[i] = a[i]
      BY <1>1
    <2> QED
      BY <1>1, <1>2, <1>5, <2>1 DEF Lists
  <1>6. ASSUME NEW p, NEW i \in 1..Len(a), a[i] = p PROVE Lists(b, p, o)
    <2>1. n \in 1..Len(b) /\ i \in 1..(n - 1) /\ b[i] = p /\ b[n] = o
      BY <1>1, <1>6
    <2> QED
      BY <2>1 DEF Lists
  <1>7. ASSUME NEW p, Lists(b, o, p) PROVE FALSE
    <2>1. PICK j \in 1..Len(b) : \E i \in 1..(j - 1) : b[i] = o /\ b[j] = p
      BY <1>7 DEF Lists
    <2>2. PICK i \in 1..(j - 1) : b[i] = o
      BY <2>1
    <2>3. i \in 1..Len(a)
      BY <1>1
    <2> QED
      BY <1>1, <2>2, <2>3
  <1> QED
    BY <1>1, <1>3, <1>4, <1>5, <1>6, <1>7 DEF Adds

LEMMA FirstRemoved ==
    ASSUME NEW q \in Seq(Operations), Once(q), NEW o, NEW r, r = Leases!RemoveFirst(q, o)
    PROVE  \/ r = q /\ \A i \in 1..Len(q) : q[i] # o
           \/ \E k \in 1..Len(q) : q[k] = o /\ r = RemoveAt(q, k)
  <1>1. CASE \A i \in 1..Len(q) : q[i] # o
    BY <1>1 DEF Leases!RemoveFirst
  <1>2. ASSUME NEW k \in 1..Len(q), q[k] = o PROVE r = RemoveAt(q, k)
    <2> DEFINE I == {i \in 1..Len(q) : q[i] = o}
    <2>1. I = {k}
      BY <1>2 DEF Once
    <2>2. \A i : i \in I => i = k
      BY <2>1
    <2>3. Leases!Min(I) = k
      BY <2>1, <2>2 DEF Leases!Min
    <2>4. Leases!SelectInSeq(q, LAMBDA v : v = o) = k
      BY <2>1, <2>3 DEF Leases!SelectInSeq
    <2>5. r = Leases!RemoveAt(q, k)
      BY <1>2, <2>4 DEF Leases!RemoveFirst
    <2> QED
      BY <2>5 DEF Leases!RemoveAt, RemoveAt
  <1> QED
    BY <1>1, <1>2

\* rest is q without o, which is first only if o was not.
Goes(q, o, r, kept, a, rest) ==
    /\ rest \in Seq(Operations)
    /\ Fits(rest, r, kept, a)
    /\ q # <<>> /\ q[1] # o => rest # <<>> /\ rest[1] = q[1]

LEMMA DequeuedFits ==
    ASSUME NEW a \in Seq(Operations), Once(a), NEW q \in Seq(Operations), NEW r, NEW given,
           Fits(q, r, given, a), NEW o \in DOMAIN given,
           NEW rest, rest = Leases!RemoveFirst(q, o),
           NEW kept, kept = [u \in DOMAIN given \ {o} |-> given[u]]
    PROVE  Goes(q, o, r, kept, a, rest)
  <1>1. /\ Len(q) \in Nat
        /\ \A j \in 1..Len(q) : \A i \in 1..(j - 1) : q[i] # q[j]
    BY ListedOnce DEF Fits
  <1>2. Once(q)
    <2>1. \A i, j \in 1..Len(q) : i \in 1..(j - 1) \/ j \in 1..(i - 1) \/ i = j
      BY <1>1
    <2> QED
      BY <1>1, <2>1 DEF Once
  <1>3. CASE rest = q /\ \A i \in 1..Len(q) : q[i] # o
    BY <1>3 DEF Fits, Goes
  <1>4. ASSUME NEW k \in 1..Len(q), q[k] = o, rest = RemoveAt(q, k)
        PROVE  Goes(q, o, r, kept, a, rest)
    <2>1. KeepsOthers(q, k, rest)
      BY <1>4, OrderKept
    <2>2. /\ rest \in Seq(Operations) /\ Len(rest) = Len(q) - 1
          /\ \A i \in 1..Len(rest) : rest[i] = IF i < k THEN q[i] ELSE q[i + 1]
      BY <1>4, ElementRemoved, SMTT(30)
    <2>3. \A i \in 1..Len(q) : q[i] = o => i = k
      BY <1>2, <1>4 DEF Once
    <2>4. ASSUME NEW i \in 1..Len(rest)
          PROVE  rest[i] \in DOMAIN kept /\ r \in kept[rest[i]].role_ids
      <3>1. PICK n \in 1..Len(q) : n # k /\ q[n] = rest[i]
        BY <2>1 DEF KeepsOthers
      <3> QED
        BY <2>3, <3>1 DEF Fits
    <2>5. ASSUME NEW u \in DOMAIN kept, r \in kept[u].role_ids
          PROVE  \E i \in 1..Len(rest) : rest[i] = u
      <3>1. u # o /\ u \in DOMAIN given /\ r \in given[u].role_ids
        BY <2>5
      <3>2. PICK n \in 1..Len(q) : q[n] = u
        BY <3>1 DEF Fits
      <3>3. n # k
        BY <1>4, <3>1, <3>2
      <3> QED
        BY <2>1, <3>2, <3>3 DEF KeepsOthers
    <2>6. ASSUME NEW j \in 1..Len(rest), NEW i \in 1..(j - 1) PROVE Lists(a, rest[i], rest[j])
      <3>1. PICK n \in 1..Len(q) : \E m \in 1..(n - 1) :
               m # k /\ n # k /\ q[m] = rest[i] /\ q[n] = rest[j]
        BY <2>1 DEF KeepsOthers
      <3> QED
        BY <3>1 DEF Fits
    <2>7. q # <<>> /\ q[1] # o => rest # <<>> /\ rest[1] = q[1]
      BY <1>1, <1>4, <2>2
    <2> QED
      BY <2>2, <2>4, <2>5, <2>6, <2>7 DEF Fits, Goes
  <1>5. \/ rest = q /\ \A i \in 1..Len(q) : q[i] # o
        \/ \E k \in 1..Len(q) : q[k] = o /\ rest = RemoveAt(q, k)
    BY <1>2, FirstRemoved
  <1> QED
    BY <1>3, <1>4, <1>5
\* q2 is q, and o behind it if it queues for the role r.
Joins(q, o, r, more, b, q2) ==
    /\ q2 \in Seq(Operations)
    /\ Fits(q2, r, more, b)
    /\ q # <<>> => q2 # <<>> /\ q2[1] = q[1]
    /\ q2 # <<>> /\ q2[1] = o => q = <<>>

LEMMA EnqueuedFits ==
    ASSUME NEW a \in Seq(Operations), Once(a), NEW o \in Operations,
           \A i \in 1..Len(a) : a[i] # o, NEW b, b = Append(a, o),
           NEW given, \A u \in DOMAIN given : \E i \in 1..Len(a) : a[i] = u,
           NEW more, DOMAIN more = DOMAIN given \union {o},
           \A u \in DOMAIN given : more[u] = given[u],
           NEW r, NEW q \in Seq(Operations), Fits(q, r, given, a),
           NEW q2, r \in more[o].role_ids => q2 = Append(q, o),
           r \notin more[o].role_ids => q2 = q
    PROVE  Joins(q, o, r, more, b, q2)
  <1>1. /\ \A p, u : p # o /\ u # o => (Lists(b, p, u) <=> Lists(a, p, u))
        /\ \A p : (\E i \in 1..Len(a) : a[i] = p) => Lists(b, p, o)
    <2>1. Adds(a, o, b)
      BY ListedLast
    <2> QED
      BY <2>1 DEF Adds
  <1>2. \A i \in 1..Len(q) : q[i] \in DOMAIN given /\ r \in given[q[i]].role_ids
    BY DEF Fits
  <1>3. o \notin DOMAIN given
    OBVIOUS
  <1>4. \A i \in 1..Len(q) : q[i] # o
    BY <1>2, <1>3
  <1>5. \A j \in 1..Len(q) : \A i \in 1..(j - 1) : Lists(b, q[i], q[j])
    <2>1. ASSUME NEW j \in 1..Len(q), NEW i \in 1..(j - 1) PROVE Lists(b, q[i], q[j])
      <3>1. i \in 1..Len(q)
        OBVIOUS
      <3>2. Lists(a, q[i], q[j])
        BY DEF Fits
      <3> QED
        BY <1>1, <1>4, <3>1, <3>2
    <2> QED
      BY <2>1
  <1>6. CASE r \notin more[o].role_ids
    <2>1. q2 = q
      BY <1>6
    <2>2. \A u \in DOMAIN more : r \in more[u].role_ids => \E i \in 1..Len(q) : q[i] = u
      BY <1>6 DEF Fits
    <2>3. \A i \in 1..Len(q) : q[i] \in DOMAIN more /\ r \in more[q[i]].role_ids
      BY <1>2, <1>4
    <2>4. Fits(q2, r, more, b)
      BY <1>5, <2>1, <2>2, <2>3 DEF Fits
    <2>5. q # <<>> => q[1] # o
      <3>1. q # <<>> => 1 \in 1..Len(q)
        OBVIOUS
      <3> QED
        BY <1>4, <3>1
    <2> QED
      BY <2>1, <2>4, <2>5 DEF Joins
  <1>7. CASE r \in more[o].role_ids
    <2> DEFINE n == Len(q) + 1
    <2>1. /\ Len(q) \in Nat /\ q2 \in Seq(Operations) /\ Len(q2) = n /\ q2[n] = o
          /\ \A i \in 1..Len(q) : q2[i] = q[i]
      <3>1. q2 = Append(q, o)
        BY <1>7
      <3> QED
        BY <3>1, AppendProperties
    <2>2. \A i \in 1..n : i = n \/ i \in 1..Len(q)
      BY <2>1
    <2>3. \A i \in 1..Len(q2) : q2[i] \in DOMAIN more /\ r \in more[q2[i]].role_ids
      <3>1. o \in DOMAIN more
        OBVIOUS
      <3>2. \A u \in DOMAIN given : u \in DOMAIN more /\ more[u] = given[u]
        BY <1>3
      <3> QED
        BY <1>2, <1>7, <2>1, <2>2, <3>1, <3>2
    <2>4. ASSUME NEW u \in DOMAIN more, r \in more[u].role_ids
          PROVE  \E i \in 1..Len(q2) : q2[i] = u
      <3>1. CASE u = o
        BY <2>1, <3>1
      <3>2. CASE u # o
        <4>1. PICK i \in 1..Len(q) : q[i] = u
          BY <2>4, <3>2 DEF Fits
        <4> QED
          BY <2>1, <4>1
      <3> QED
        BY <3>1, <3>2
    <2>5. ASSUME NEW j \in 1..Len(q2), NEW i \in 1..(j - 1) PROVE Lists(b, q2[i], q2[j])
      <3>1. i \in 1..Len(q) /\ q2[i] = q[i]
        BY <2>1
      <3>2. CASE j = n
        <4>1. \E m \in 1..Len(a) : a[m] = q[i]
          BY <1>2, <3>1
        <4> QED
          BY <1>1, <2>1, <3>1, <3>2, <4>1
      <3>3. CASE j # n
        <4>1. j \in 1..Len(q) /\ q2[j] = q[j]
          BY <2>1, <3>3
        <4> QED
          BY <1>5, <3>1, <4>1
      <3> QED
        BY <3>2, <3>3
    <2>6. Fits(q2, r, more, b)
      BY <2>3, <2>4, <2>5 DEF Fits
    <2>7. /\ q # <<>> => q2 # <<>> /\ q2[1] = q[1]
          /\ q2 # <<>> /\ q2[1] = o => q = <<>>
      <3>1. q # <<>> => 1 \in 1..Len(q)
        OBVIOUS
      <3> QED
        BY <1>4, <2>1, <3>1
    <2> QED
      BY <2>1, <2>6, <2>7 DEF Joins
  <1> QED
    BY <1>6, <1>7

-----------------------------------------------------------------------------
\* The queues hold the tickets in the order in which they arrived, and whoever
\* holds a lease heads the queues of its roles.
QueuesInOrder ==
    /\ arrivals \in Seq(Operations) /\ Once(arrivals)
    /\ \A i \in 1..Len(arrivals) : lease_pc[arrivals[i]] # "New"
    /\ \A o \in Leases!Ticketed : \E i \in 1..Len(arrivals) : arrivals[i] = o
    /\ queues \in [Roles -> Seq(Operations)]
    /\ \A r \in Roles : Fits(queues[r], r, tickets, arrivals)
    /\ \A o \in Leases!Leased : \A r \in Leases!RolesOf(o) :
          queues[r] # <<>> /\ queues[r][1] = o

ArrivalInv == LeaseInv /\ QueuesInOrder

\* What one run of the loop of acquire finds, for an operation that has been
\* queued before, or just now.
Found(o, queue, given, a) ==
    /\ a \in Seq(Operations) /\ Once(a)
    /\ \A i \in 1..Len(a) : a[i] = o \/ lease_pc[a[i]] # "New"
    /\ DOMAIN given = Leases!Ticketed \union {o}
    /\ \A u \in DOMAIN given : \E i \in 1..Len(a) : a[i] = u
    /\ \A u \in Leases!Ticketed \ {o} : given[u] = tickets[u]
    /\ queue \in [Roles -> Seq(Operations)]
    /\ \A r \in Roles : Fits(queue[r], r, given, a)
    /\ \A u \in Leases!Leased : \A r \in Leases!RolesOf(u) :
          queue[r] # <<>> /\ queue[r][1] = u

LEMMA FoundAgain ==
    ASSUME ArrivalInv, NEW o \in Leases!Ticketed
    PROVE  Found(o, queues, tickets, arrivals)
  BY DEF ArrivalInv, QueuesInOrder, Found, Leases!Ticketed

LEMMA FoundFirst ==
    ASSUME ArrivalInv, NEW o \in Operations, lease_pc[o] = "New",
           NEW R \in SUBSET Roles, NEW t, t.role_ids = R,
           NEW given, given = [u \in Leases!Ticketed \union {o} |-> IF u = o THEN t ELSE tickets[u]]
    PROVE  /\ Found(o, Leases!Queued(o, R), given, Append(arrivals, o))
           /\ \A r \in R : /\ Leases!Queued(o, R)[r] # <<>>
                           /\ Leases!Queued(o, R)[r][1] = o => queues[r] = <<>>
  <1> DEFINE queue == Leases!Queued(o, R)
             b == Append(arrivals, o)
  <1>1. /\ arrivals \in Seq(Operations) /\ Once(arrivals)
        /\ queues \in [Roles -> Seq(Operations)]
        /\ \A u \in DOMAIN tickets : \E i \in 1..Len(arrivals) : arrivals[i] = u
        /\ \A r \in Roles : Fits(queues[r], r, tickets, arrivals)
        /\ \A i \in 1..Len(arrivals) : arrivals[i] # o
    BY DEF ArrivalInv, QueuesInOrder, Leases!Ticketed
  <1>2. /\ DOMAIN queue = Roles
        /\ \A r \in Roles : queue[r] = IF r \in t.role_ids THEN Append(queues[r], o) ELSE queues[r]
    BY DEF Leases!Queued
  <1>3. given = [u \in DOMAIN tickets \union {o} |-> IF u = o THEN t ELSE tickets[u]]
    BY DEF Leases!Ticketed
  <1>4. /\ b \in Seq(Operations) /\ Once(b)
        /\ \A p : (\E i \in 1..Len(b) : b[i] = p) <=> p = o \/ \E i \in 1..Len(arrivals) : arrivals[i] = p
    <2>1. Adds(arrivals, o, b)
      BY <1>1, ListedLast
    <2> QED
      BY <2>1 DEF Adds
  <1>5. \A r \in Roles :
           /\ queue[r] \in Seq(Operations)
           /\ Fits(queue[r], r, given, b)
           /\ queues[r] # <<>> => queue[r] # <<>> /\ queue[r][1] = queues[r][1]
           /\ queue[r] # <<>> /\ queue[r][1] = o => queues[r] = <<>>
    <2> SUFFICES ASSUME NEW r \in Roles
                 PROVE  /\ queue[r] \in Seq(Operations)
                        /\ Fits(queue[r], r, given, b)
                        /\ queues[r] # <<>> => queue[r] # <<>> /\ queue[r][1] = queues[r][1]
                        /\ queue[r] # <<>> /\ queue[r][1] = o => queues[r] = <<>>
      OBVIOUS
    <2>1. queues[r] \in Seq(Operations) /\ Fits(queues[r], r, tickets, arrivals)
      BY <1>1
    <2>2. queue[r] = IF r \in t.role_ids THEN Append(queues[r], o) ELSE queues[r]
      BY <1>2
    <2>3. b = Append(arrivals, o)
      OBVIOUS
    <2>4. /\ DOMAIN given = DOMAIN tickets \union {o}
          /\ \A u \in DOMAIN tickets : given[u] = tickets[u]
          /\ given[o] = t
      BY <1>1, <1>3
    <2>5. /\ r \in given[o].role_ids => queue[r] = Append(queues[r], o)
          /\ r \notin given[o].role_ids => queue[r] = queues[r]
      BY <2>2, <2>4
    <2> HIDE DEF queue, b
    <2>6. Joins(queues[r], o, r, given, b, queue[r])
      BY <1>1, <2>1, <2>3, <2>4, <2>5, EnqueuedFits, ZenonT(30)
    <2> QED
      BY <2>6 DEF Joins
  <1>6. queue \in [Roles -> Seq(Operations)]
    BY <1>2, <1>5 DEF Leases!Queued
  <1>7. \A r \in R : queue[r] # <<>>
    BY <1>1, <1>2
  <1>8. \A i \in 1..Len(b) : b[i] = o \/ lease_pc[b[i]] # "New"
    <2>1. \A i \in 1..Len(b) : b[i] = o \/ \E j \in 1..Len(arrivals) : arrivals[j] = b[i]
      BY <1>4
    <2> QED
      BY <2>1 DEF ArrivalInv, QueuesInOrder
  <1>9. \A u \in Leases!Leased : \A r \in Leases!RolesOf(u) :
           queue[r] # <<>> /\ queue[r][1] = u
    <2>1. ASSUME NEW u \in Leases!Leased, NEW r \in Leases!RolesOf(u)
          PROVE  r \in Roles /\ queues[r] # <<>> /\ queues[r][1] = u
      BY DEF ArrivalInv, QueuesInOrder, LeaseInv, LeaseTypes, IsTicket, Leases!Leased, Leases!RolesOf
    <2> QED
      BY <1>5, <2>1
  <1>10. /\ DOMAIN given = Leases!Ticketed \union {o}
         /\ o \notin Leases!Ticketed
         /\ \A u \in Leases!Ticketed \ {o} : given[u] = tickets[u]
         /\ \A u \in DOMAIN given : \E i \in 1..Len(b) : b[i] = u
    BY <1>1, <1>4 DEF Leases!Ticketed
  <1> HIDE DEF queue
  <1> HIDE DEF b
  <1>11. Found(o, queue, given, b)
    BY <1>4, <1>5, <1>6, <1>8, <1>9, <1>10 DEF Found
  <1> QED
    BY <1>5, <1>7, <1>11 DEF queue, b
\* After the loop: the operation waits, has its lease, or is gone.
LEMMA LookInOrder ==
    ASSUME LeaseInv, LeaseInv', NEW o \in Operations, lease_pc[o] \in {"New", "Woken"},
           NEW queue, NEW given, NEW a, Found(o, queue, given, a),
           Leases!Look(o, queue, given), arrivals' = a
    PROVE  QueuesInOrder'
  <1> DEFINE outcome == Leases!Outcome(o, queue, given)
  <1>1. lease_pc \in [Operations -> States] /\ o \notin Leases!Leased
    BY DEF LeaseInv, LeaseTypes, Leases!Leased
  <1>2. outcome \in States
    BY DEF Leases!Outcome, States
  <1>3. CASE outcome \in {"Asleep", "Leased"}
    <2>1. /\ queues' = queue /\ tickets' = given
          /\ lease_pc' = [lease_pc EXCEPT ![o] = outcome]
      BY <1>3 DEF Leases!Look
    <2> HIDE DEF outcome
    <2>2. ASSUME NEW u \in Leases!Leased', u # o
          PROVE  u \in Leases!Leased /\ Leases!RolesOf(u)' = Leases!RolesOf(u)
      <3>1. lease_pc'[u] = lease_pc[u] /\ u \in Operations
        BY <1>1, <2>1, <2>2 DEF Leases!Leased, LeaseInv, LeaseTypes
      <3>2. u \in Leases!Ticketed /\ given[u] = tickets[u]
        BY <2>1, <2>2 DEF Leases!Leased, Leases!Ticketed, Found
      <3> QED
        BY <2>1, <2>2, <3>1, <3>2 DEF Leases!Leased, Leases!RolesOf
    <2>3. ASSUME o \in Leases!Leased', NEW r \in Leases!RolesOf(o)'
          PROVE  queue[r] # <<>> /\ queue[r][1] = o
      <3>1. outcome = "Leased"
        BY <1>1, <2>1, <2>3 DEF Leases!Leased
      <3>2. Leases!IsReady(queue, o, given[o].role_ids)
        BY <3>1 DEF outcome, Leases!Outcome
      <3>3. r \in given[o].role_ids /\ r \in Roles
        BY <2>1, <2>3 DEF Leases!RolesOf, Leases!Leased, LeaseInv, LeaseTypes, IsTicket
      <3>4. queue[r] \in Seq(Operations) /\ queue[r] # <<>> /\ Head(queue[r]) = o
        BY <3>2, <3>3 DEF Leases!IsReady, Found
      <3> QED
        BY <3>4
    <2>4. \A u \in Leases!Leased' : \A r \in Leases!RolesOf(u)' : queue[r] # <<>> /\ queue[r][1] = u
      BY <2>2, <2>3 DEF Found
    <2>5. \A i \in 1..Len(a) : lease_pc'[a[i]] # "New"
      <3>1. a \in Seq(Operations)
        BY DEF Found
      <3> QED
        BY <1>1, <1>3, <2>1, <3>1 DEF Found
    <2> QED
      BY <2>1, <2>4, <2>5 DEF Found, QueuesInOrder, Leases!Ticketed
  <1>4. CASE outcome \in States \ {"Asleep", "Leased"}
    <2>1. /\ queues' = Leases!Dequeued(queue, o)
          /\ tickets' = [u \in DOMAIN given \ {o} |-> given[u]]
          /\ lease_pc' = Leases!Notify([lease_pc EXCEPT ![o] = outcome])
      BY <1>4 DEF Leases!Look, Leases!RemoveTicket
    <2>2. lease_pc'[o] = outcome
          /\ \A u \in Operations \ {o} :
                 \/ lease_pc'[u] = lease_pc[u]
                 \/ lease_pc[u] = "Asleep" /\ lease_pc'[u] = "Woken"
      BY <1>4, <2>1, NotifyWakes DEF LeaseInv
    <2>3. outcome # "New"
      BY DEF Leases!Outcome
    <2> HIDE DEF outcome
    <2>4. ASSUME NEW u \in Leases!Leased'
          PROVE  u # o /\ u \in Leases!Leased /\ Leases!RolesOf(u)' = Leases!RolesOf(u)
      <3>1. u # o /\ u \in Leases!Ticketed /\ given[u] = tickets[u] /\ u \in Operations
        BY <2>1 DEF Leases!Leased, Leases!Ticketed, Found, LeaseInv, LeaseTypes
      <3>2. lease_pc[u] = "Leased"
        BY <2>2, <3>1 DEF Leases!Leased
      <3> QED
        BY <2>1, <3>1, <3>2 DEF Leases!Leased, Leases!RolesOf, Found, Leases!Ticketed
    <2>5. /\ a \in Seq(Operations) /\ Once(a) /\ o \in DOMAIN given
          /\ queue \in [Roles -> Seq(Operations)]
          /\ \A r \in Roles : Fits(queue[r], r, given, a)
      BY DEF Found
    <2>6. ASSUME NEW r \in Roles
          PROVE  /\ queues'[r] \in Seq(Operations)
                 /\ Fits(queues'[r], r, tickets', a)
                 /\ queue[r] # <<>> /\ queue[r][1] # o => queues'[r] # <<>> /\ queues'[r][1] = queue[r][1]
      <3>1. queues'[r] = Leases!RemoveFirst(queue[r], o)
        BY <2>1 DEF Leases!Dequeued
      <3>2. queue[r] \in Seq(Operations) /\ Fits(queue[r], r, given, a)
        BY <2>5
      <3> QED
        <4>1. Goes(queue[r], o, r, tickets', a, queues'[r])
          BY <2>1, <2>5, <3>1, <3>2, DequeuedFits
        <4> QED
          BY <4>1 DEF Goes
    <2>7. queues' \in [Roles -> Seq(Operations)]
      BY <2>1, <2>6 DEF Leases!Dequeued
    <2>8. ASSUME NEW u \in Leases!Leased', NEW r \in Leases!RolesOf(u)'
          PROVE  queues'[r] # <<>> /\ queues'[r][1] = u
      <3>1. u # o /\ r \in Leases!RolesOf(u) /\ queue[r] # <<>> /\ queue[r][1] = u
        BY <2>4 DEF Found
      <3>2. r \in Roles
        BY DEF LeaseInv, LeaseTypes, IsTicket, Leases!Leased, Leases!RolesOf
      <3> QED
        BY <2>6, <3>1, <3>2
    <2>9. \A i \in 1..Len(a) : lease_pc'[a[i]] # "New"
      <3>1. \A i \in 1..Len(a) : a[i] \in Operations
        BY <2>5
      <3> QED
        BY <2>2, <2>3, <3>1 DEF Found
    <2>10. \A u \in Leases!Ticketed' : \E i \in 1..Len(a) : a[i] = u
      BY <2>1 DEF Found, Leases!Ticketed
    <2> QED
      BY <2>5, <2>6, <2>7, <2>8, <2>9, <2>10 DEF QueuesInOrder
  <1> QED
    BY <1>2, <1>3, <1>4

LEMMA EndedInOrder ==
    ASSUME ArrivalInv, LeaseInv', NEW o \in Operations, Leases!Ended(o)
    PROVE  QueuesInOrder'
  <1>1. /\ lease_pc[o] = "Leased" /\ o \in Leases!Ticketed
        /\ lease_pc' = Leases!Notify([lease_pc EXCEPT ![o] = "Done"])
        /\ queues' = Leases!Dequeued(queues, o)
        /\ tickets' = [u \in DOMAIN tickets \ {o} |-> tickets[u]]
        /\ arrivals' = arrivals
    BY DEF Leases!Ended, Leases!RemoveTicket, ArrivalInv, LeaseInv, TicketsAreHeld
  <1>2. lease_pc'[o] = "Done"
        /\ \A u \in Operations \ {o} :
               \/ lease_pc'[u] = lease_pc[u]
               \/ lease_pc[u] = "Asleep" /\ lease_pc'[u] = "Woken"
    BY <1>1, NotifyWakes DEF ArrivalInv, LeaseInv, States
  <1>3. ASSUME NEW u \in Leases!Leased'
        PROVE  u # o /\ u \in Leases!Leased /\ Leases!RolesOf(u)' = Leases!RolesOf(u)
    <2>1. u # o /\ u \in Leases!Ticketed /\ u \in Operations /\ tickets'[u] = tickets[u]
      BY <1>1 DEF Leases!Leased, Leases!Ticketed, ArrivalInv, LeaseInv, LeaseTypes
    <2>2. lease_pc[u] = "Leased"
      BY <1>2, <2>1 DEF Leases!Leased
    <2> QED
      BY <2>1, <2>2 DEF Leases!Leased, Leases!RolesOf
  <1>4. /\ arrivals \in Seq(Operations) /\ Once(arrivals) /\ o \in DOMAIN tickets
        /\ queues \in [Roles -> Seq(Operations)]
        /\ \A r \in Roles : Fits(queues[r], r, tickets, arrivals)
    BY <1>1 DEF ArrivalInv, QueuesInOrder, Leases!Ticketed
  <1>5. ASSUME NEW r \in Roles
        PROVE  /\ queues'[r] \in Seq(Operations)
               /\ Fits(queues'[r], r, tickets', arrivals)
               /\ queues[r] # <<>> /\ queues[r][1] # o => queues'[r] # <<>> /\ queues'[r][1] = queues[r][1]
    <2>1. queues'[r] = Leases!RemoveFirst(queues[r], o)
      BY <1>1 DEF Leases!Dequeued
    <2>2. queues[r] \in Seq(Operations) /\ Fits(queues[r], r, tickets, arrivals)
      BY <1>4
    <2> QED
      <3>1. Goes(queues[r], o, r, tickets', arrivals, queues'[r])
        BY <1>1, <1>4, <2>1, <2>2, DequeuedFits
      <3> QED
        BY <3>1 DEF Goes
  <1>6. queues' \in [Roles -> Seq(Operations)]
    BY <1>1, <1>5 DEF Leases!Dequeued
  <1>7. ASSUME NEW u \in Leases!Leased', NEW r \in Leases!RolesOf(u)'
        PROVE  queues'[r] # <<>> /\ queues'[r][1] = u
    <2>1. u # o /\ r \in Leases!RolesOf(u) /\ queues[r] # <<>> /\ queues[r][1] = u
      BY <1>3 DEF ArrivalInv, QueuesInOrder
    <2>2. r \in Roles
      BY DEF LeaseInv, LeaseTypes, IsTicket, Leases!Leased, Leases!RolesOf
    <2> QED
      BY <1>5, <2>1, <2>2
  <1>8. \A i \in 1..Len(arrivals) : lease_pc'[arrivals[i]] # "New"
    <2>1. \A i \in 1..Len(arrivals) : arrivals[i] \in Operations
      BY <1>4
    <2> QED
      BY <1>2, <2>1 DEF ArrivalInv, QueuesInOrder
  <1>9. \A u \in Leases!Ticketed' : \E i \in 1..Len(arrivals) : arrivals[i] = u
    BY <1>1 DEF ArrivalInv, QueuesInOrder, Leases!Ticketed
  <1> QED
    BY <1>1, <1>4, <1>5, <1>6, <1>7, <1>8, <1>9 DEF QueuesInOrder
-----------------------------------------------------------------------------
\* What a step about one operation leaves as it was for all others.
Elsewhere(o) ==
    /\ Leases!Waiting' \ {o} = Leases!Waiting \ {o}
    /\ Leases!Leased' \ {o} = Leases!Leased \ {o}
    /\ \A u \in Operations \ {o} :
          Leases!Wants'[u] = Leases!Wants[u] /\ Leases!Before'[u] \ {o} = Leases!Before[u] \ {o}

LEMMA OthersWait ==
    ASSUME LeaseTypes, LeaseTypes', NEW o \in Operations,
           \A u \in Operations \ {o} :
               \/ lease_pc'[u] = lease_pc[u]
               \/ lease_pc[u] = "Asleep" /\ lease_pc'[u] = "Woken",
           Leases!Ticketed' \ {o} = Leases!Ticketed \ {o},
           \A u \in Leases!Ticketed \ {o} : tickets'[u] = tickets[u],
           \A p, u : p # o /\ u # o => (Lists(arrivals', p, u) <=> Lists(arrivals, p, u))
    PROVE  Elsewhere(o)
  <1>1. /\ Leases!Waiting \subseteq Operations /\ Leases!Waiting' \subseteq Operations
        /\ Leases!Leased \subseteq Operations /\ Leases!Leased' \subseteq Operations
        /\ Leases!Waiting \union Leases!Leased \subseteq Leases!Ticketed
    BY DEF LeaseTypes, Leases!Waiting, Leases!Leased
  <1>2. \A u \in Operations \ {o} :
           /\ u \in Leases!Waiting' <=> u \in Leases!Waiting
           /\ u \in Leases!Leased' <=> u \in Leases!Leased
           /\ u \in Leases!Ticketed => Leases!RolesOf(u)' = Leases!RolesOf(u)
    BY OthersStay
  <1>3. \A p, u : p # o /\ u # o => (Leases!Precedes(p, u)' <=> Leases!Precedes(p, u))
    BY DEF Leases!Precedes, Lists
  <1>4. ASSUME NEW u \in Operations \ {o} PROVE Leases!Wants'[u] = Leases!Wants[u]
    BY <1>1, <1>2 DEF Leases!Wants
  <1>5. ASSUME NEW u \in Operations \ {o} PROVE Leases!Before'[u] \ {o} = Leases!Before[u] \ {o}
    BY <1>1, <1>2, <1>3 DEF Leases!Before
  <1> QED
    BY <1>1, <1>2, <1>4, <1>5 DEF Elsewhere

\* What became of the operation that looked.
LEMMA LookElsewhere ==
    ASSUME LeaseInv, LeaseInv', NEW o \in Operations, lease_pc[o] \in {"New", "Woken"},
           NEW queue, NEW given, NEW a, Found(o, queue, given, a),
           Leases!Look(o, queue, given), arrivals' = a,
           \A p, u : p # o /\ u # o => (Lists(a, p, u) <=> Lists(arrivals, p, u))
    PROVE  /\ Elsewhere(o)
           /\ \/ /\ o \in Leases!Waiting' /\ o \notin Leases!Leased'
                 /\ Leases!RolesOf(o)' = given[o].role_ids
              \/ /\ o \in Leases!Leased' /\ o \notin Leases!Waiting'
                 /\ Leases!RolesOf(o)' = given[o].role_ids
                 /\ Leases!IsReady(queue, o, given[o].role_ids)
              \/ o \notin Leases!Leased' \union Leases!Waiting'
  <1> DEFINE outcome == Leases!Outcome(o, queue, given)
  <1>1. lease_pc \in [Operations -> States] /\ LeaseTypes /\ LeaseTypes'
    BY DEF LeaseInv, LeaseTypes
  <1>2. outcome \in States
    BY DEF Leases!Outcome, States
  <1>3. /\ DOMAIN given = Leases!Ticketed \union {o}
        /\ \A u \in Leases!Ticketed \ {o} : given[u] = tickets[u]
    BY DEF Found
  <1>4. CASE outcome \in {"Asleep", "Leased"}
    <2>1. /\ tickets' = given
          /\ lease_pc' = [lease_pc EXCEPT ![o] = outcome]
      BY <1>4 DEF Leases!Look
    <2>2. outcome = "Leased" => Leases!IsReady(queue, o, given[o].role_ids)
      BY DEF Leases!Outcome
    <2> HIDE DEF outcome
    <2>3. Leases!Ticketed' = Leases!Ticketed \union {o}
      BY <1>3, <2>1 DEF Leases!Ticketed
    <2>4. Elsewhere(o)
      BY <1>1, <1>3, <2>1, <2>3, OthersWait
    <2>5. o \in Leases!Ticketed' /\ lease_pc'[o] = outcome /\ Leases!RolesOf(o)' = given[o].role_ids
      BY <1>1, <2>1, <2>3 DEF Leases!RolesOf
    <2> QED
      BY <1>4, <2>2, <2>4, <2>5 DEF Leases!Leased, Leases!Waiting
  <1>5. CASE outcome \in States \ {"Asleep", "Leased"}
    <2>1. /\ tickets' = [u \in DOMAIN given \ {o} |-> given[u]]
          /\ lease_pc' = Leases!Notify([lease_pc EXCEPT ![o] = outcome])
      BY <1>5 DEF Leases!Look, Leases!RemoveTicket
    <2> HIDE DEF outcome
    <2>2. \A u \in Operations \ {o} :
             \/ lease_pc'[u] = lease_pc[u]
             \/ lease_pc[u] = "Asleep" /\ lease_pc'[u] = "Woken"
      BY <1>1, <1>5, <2>1, NotifyWakes
    <2>3. /\ Leases!Ticketed' = Leases!Ticketed \ {o}
          /\ \A u \in Leases!Ticketed \ {o} : tickets'[u] = tickets[u]
      BY <1>3, <2>1 DEF Leases!Ticketed
    <2>4. Leases!Ticketed' \ {o} = Leases!Ticketed \ {o}
      BY <2>3
    <2>5. Elsewhere(o)
      BY <1>1, <2>2, <2>3, <2>4, OthersWait
    <2>6. o \notin Leases!Leased' \union Leases!Waiting'
      BY <2>3 DEF Leases!Leased, Leases!Waiting
    <2> QED
      BY <2>5, <2>6
  <1> QED
    BY <1>2, <1>4, <1>5

-----------------------------------------------------------------------------
LEMMA SameApartFrom ==
    ASSUME NEW A, NEW B, NEW x, A \ {x} = B \ {x}, x \in A <=> x \in B
    PROVE  A = B
  OBVIOUS

\* Such a step, as a step of the lock.
LEMMA ElsewhereSame ==
    ASSUME LeaseTypes, LeaseTypes', NEW o \in Operations, Elsewhere(o),
           o \in Leases!Waiting' <=> o \in Leases!Waiting,
           o \in Leases!Leased' <=> o \in Leases!Leased,
           o \in Leases!Ticketed => Leases!RolesOf(o)' = Leases!RolesOf(o),
           \A p : p \in Leases!Waiting /\ o \in Leases!Waiting =>
              /\ Lists(arrivals', p, o) <=> Lists(arrivals, p, o)
              /\ Lists(arrivals', o, p) <=> Lists(arrivals, o, p)
    PROVE  UNCHANGED Leases!Lock!vars
  <1>1. Leases!Waiting' = Leases!Waiting /\ Leases!Leased' = Leases!Leased
    BY DEF Elsewhere
  <1>2. Leases!Wants'[o] = Leases!Wants[o]
    BY <1>1 DEF Leases!Wants, Leases!Waiting, Leases!Leased
  <1>3. Leases!Wants' = Leases!Wants
    BY <1>2 DEF Elsewhere, Leases!Wants
  <1>4. \A p : p \in Leases!Waiting /\ o \in Leases!Waiting =>
           /\ Leases!Precedes(p, o)' <=> Leases!Precedes(p, o)
           /\ Leases!Precedes(o, p)' <=> Leases!Precedes(o, p)
    BY DEF Leases!Precedes, Lists
  <1>5. Leases!Before'[o] = Leases!Before[o]
    BY <1>1, <1>4 DEF Leases!Before
  <1>6. \A u \in Operations \ {o} : o \in Leases!Before'[u] <=> o \in Leases!Before[u]
    BY <1>1, <1>4 DEF Leases!Before
  <1>7. ASSUME NEW u \in Operations \ {o} PROVE Leases!Before'[u] = Leases!Before[u]
    <2>1. Leases!Before'[u] \ {o} = Leases!Before[u] \ {o}
      BY DEF Elsewhere
    <2>2. o \in Leases!Before'[u] <=> o \in Leases!Before[u]
      BY <1>6
    <2> QED
      BY <2>1, <2>2, SameApartFrom
  <1>8. Leases!Before' = Leases!Before
    BY <1>5, <1>7 DEF Leases!Before
  <1> QED
    BY <1>1, <1>3, <1>8 DEF Leases!Lock!vars

LEMMA ElsewhereRequest ==
    ASSUME LeaseTypes, LeaseTypes', NEW o \in Operations, Elsewhere(o), NEW R,
           o \notin Leases!Waiting \union Leases!Leased,
           o \in Leases!Waiting', o \notin Leases!Leased', Leases!RolesOf(o)' = R,
           \A p \in Leases!Waiting : Lists(arrivals', p, o),
           \A p : ~Lists(arrivals', o, p)
    PROVE  Leases!Lock!Idle(o) /\ Leases!Lock!Request(o, R)
  <1>1. Leases!Waiting' = Leases!Waiting \union {o} /\ Leases!Leased' = Leases!Leased
    BY DEF Elsewhere
  <1>2. Leases!Wants' = [Leases!Wants EXCEPT ![o] = R]
    <2>1. Leases!Wants'[o] = R
      BY DEF Leases!Wants
    <2> QED
      BY <2>1 DEF Elsewhere, Leases!Wants
  <1>3. /\ \A p \in Leases!Waiting : Leases!Precedes(p, o)'
        /\ \A p : ~Leases!Precedes(o, p)'
    BY DEF Leases!Precedes, Lists
  <1>4. Leases!Before'[o] = Leases!Waiting
    BY <1>1, <1>3 DEF Leases!Before
  <1>5. \A u \in Operations \ {o} : o \notin Leases!Before'[u] /\ o \notin Leases!Before[u]
    BY <1>3 DEF Leases!Before
  <1>6. ASSUME NEW u \in Operations \ {o} PROVE Leases!Before'[u] = Leases!Before[u]
    <2>1. Leases!Before'[u] \ {o} = Leases!Before[u] \ {o}
      BY DEF Elsewhere
    <2>2. o \in Leases!Before'[u] <=> o \in Leases!Before[u]
      BY <1>5
    <2> QED
      BY <2>1, <2>2, SameApartFrom
  <1>7. Leases!Before' = [Leases!Before EXCEPT ![o] = Leases!Waiting]
    <2>1. /\ DOMAIN Leases!Before = Operations /\ DOMAIN Leases!Before' = Operations
          /\ Leases!Before = [u \in Operations |-> Leases!Before[u]]
          /\ Leases!Before' = [u \in Operations |-> Leases!Before'[u]]
      BY DEF Leases!Before
    <2> HIDE DEF Leases!Before
    <2> QED
      BY <1>4, <1>6, <2>1, SMTT(30)
  <1> QED
    BY <1>1, <1>2, <1>7, Zenon DEF Leases!Lock!Idle, Leases!Lock!Request

LEMMA ElsewhereTake ==
    ASSUME LeaseTypes, LeaseTypes', NEW o \in Operations, Elsewhere(o), NEW R,
           o \notin Leases!Waiting \union Leases!Leased,
           o \in Leases!Leased', o \notin Leases!Waiting', Leases!RolesOf(o)' = R,
           \A u \in Leases!Waiting \union Leases!Leased : Leases!RolesOf(u) \cap R = {}
    PROVE  Leases!Lock!Idle(o) /\ Leases!Lock!Take(o, R)
  <1>1. Leases!Waiting' = Leases!Waiting /\ Leases!Leased' = Leases!Leased \union {o}
    BY DEF Elsewhere
  <1>2. Leases!Wants' = [Leases!Wants EXCEPT ![o] = R]
    <2>1. Leases!Wants'[o] = R
      BY DEF Leases!Wants
    <2> QED
      BY <2>1 DEF Elsewhere, Leases!Wants
  <1>3. Leases!Before'[o] = {} /\ Leases!Before[o] = {}
    BY <1>1 DEF Leases!Before
  <1>4. \A u \in Operations \ {o} : o \notin Leases!Before'[u] /\ o \notin Leases!Before[u]
    BY <1>1 DEF Leases!Before
  <1>5. ASSUME NEW u \in Operations \ {o} PROVE Leases!Before'[u] = Leases!Before[u]
    <2>1. Leases!Before'[u] \ {o} = Leases!Before[u] \ {o}
      BY DEF Elsewhere
    <2>2. o \in Leases!Before'[u] <=> o \in Leases!Before[u]
      BY <1>4
    <2> QED
      BY <2>1, <2>2, SameApartFrom
  <1>6. Leases!Before' = Leases!Before
    BY <1>3, <1>5 DEF Leases!Before
  <1>7. \A u \in Leases!Leased \union Leases!Waiting : Leases!Wants[u] \cap R = {}
    BY DEF Leases!Wants, LeaseTypes, Leases!Leased, Leases!Waiting
  <1> QED
    BY <1>1, <1>2, <1>6, <1>7 DEF Leases!Lock!Idle, Leases!Lock!Take

\* Who is granted or turned down no longer waits.
LEMMA ElsewhereWithdrawn ==
    ASSUME LeaseTypes, LeaseTypes', NEW o \in Operations, Elsewhere(o), o \notin Leases!Waiting'
    PROVE  Leases!Lock!Withdrawn(o)
  <1>1. Leases!Waiting' = Leases!Waiting \ {o}
    BY DEF Elsewhere
  <1>2. Leases!Before'[o] = {}
    BY DEF Leases!Before
  <1>3. \A u \in Operations : o \notin Leases!Before'[u]
    BY DEF Leases!Before
  <1>4. ASSUME NEW u \in Operations \ {o} PROVE Leases!Before'[u] = Leases!Before[u] \ {o}
    BY <1>3 DEF Elsewhere
  <1>5. Leases!Before' = [u \in Operations |-> IF u = o THEN {} ELSE Leases!Before[u] \ {o}]
    BY <1>2, <1>4 DEF Leases!Before
  <1> QED
    BY <1>1, <1>5 DEF Leases!Lock!Withdrawn
LEMMA AcquireInOrder ==
    ASSUME ArrivalInv, LeaseInv', NEW o \in Operations, NEW kind \in Leases!Kinds,
           NEW R \in (SUBSET Roles) \ {{}}, Leases!Acquire(o, kind, R)
    PROVE  QueuesInOrder' /\ [Leases!Lock!Next]_(Leases!Lock!vars)
  <1> DEFINE t == [kind |-> kind, role_ids |-> R,
                   queued_versions |-> [r \in R |-> role_versions[r]]]
             given == [u \in Leases!Ticketed \union {o} |-> IF u = o THEN t ELSE tickets[u]]
             queue == Leases!Queued(o, R)
  <1>1. /\ lease_pc[o] = "New" /\ arrivals' = Append(arrivals, o)
        /\ Leases!Look(o, queue, given)
    BY DEF Leases!Acquire
  <1>2. t.role_ids = R
    OBVIOUS
  <1> HIDE DEF t
  <1>3. given[o] = t /\ given = [u \in Leases!Ticketed \union {o} |-> IF u = o THEN t ELSE tickets[u]]
    OBVIOUS
  <1> HIDE DEF given
  <1>4. /\ Found(o, queue, given, arrivals')
        /\ \A r \in R : queue[r] # <<>> /\ (queue[r][1] = o => queues[r] = <<>>)
    BY <1>1, <1>2, <1>3, FoundFirst
  <1> HIDE DEF queue
  <1>5. QueuesInOrder'
    BY <1>1, <1>4, LookInOrder DEF ArrivalInv
  <1>6. Adds(arrivals, o, arrivals')
    <2>1. /\ arrivals \in Seq(Operations) /\ Once(arrivals)
          /\ \A i \in 1..Len(arrivals) : arrivals[i] # o
      BY <1>1 DEF ArrivalInv, QueuesInOrder
    <2> QED
      BY <1>1, <2>1, ListedLast
  <1>7. /\ Elsewhere(o)
        /\ \/ /\ o \in Leases!Waiting' /\ o \notin Leases!Leased'
              /\ Leases!RolesOf(o)' = R
           \/ /\ o \in Leases!Leased' /\ o \notin Leases!Waiting'
              /\ Leases!RolesOf(o)' = R
              /\ Leases!IsReady(queue, o, R)
           \/ o \notin Leases!Leased' \union Leases!Waiting'
    <2>1. \A p, u : p # o /\ u # o => (Lists(arrivals', p, u) <=> Lists(arrivals, p, u))
      BY <1>6 DEF Adds
    <2> QED
      BY <1>1, <1>2, <1>3, <1>4, <2>1, LookElsewhere DEF ArrivalInv
  <1>8. /\ o \notin Leases!Ticketed /\ o \notin Leases!Waiting \union Leases!Leased
        /\ LeaseTypes /\ LeaseTypes'
    BY <1>1 DEF ArrivalInv, LeaseInv, TicketsAreHeld, Leases!Waiting, Leases!Leased
  <1>9. CASE o \in Leases!Waiting' /\ o \notin Leases!Leased' /\ Leases!RolesOf(o)' = R
    <2>1. /\ \A p \in Leases!Waiting : Lists(arrivals', p, o)
          /\ \A p : ~Lists(arrivals', o, p)
      BY <1>6 DEF Adds, ArrivalInv, QueuesInOrder, Leases!Waiting
    <2>2. Leases!Lock!Idle(o) /\ Leases!Lock!Request(o, R)
      BY <1>7, <1>8, <1>9, <2>1, ElsewhereRequest
    <2> QED
      BY <1>5, <2>2 DEF Leases!Lock!Next
  <1>10. CASE /\ o \in Leases!Leased' /\ o \notin Leases!Waiting'
              /\ Leases!RolesOf(o)' = R /\ Leases!IsReady(queue, o, R)
    <2>1. ASSUME NEW r \in R PROVE queues[r] = <<>>
      <3>1. queue[r] \in Seq(Operations) /\ queue[r] # <<>> /\ Head(queue[r]) = o
        BY <1>4, <1>10 DEF Leases!IsReady, Found
      <3>2. queue[r][1] = o
        BY <3>1
      <3> QED
        BY <1>4, <3>2
    <2>2. ASSUME NEW u \in Leases!Waiting \union Leases!Leased, NEW r \in R, r \in Leases!RolesOf(u)
          PROVE  FALSE
      <3>1. u \in DOMAIN tickets /\ r \in tickets[u].role_ids
        BY <2>2 DEF Leases!Waiting, Leases!Leased, Leases!Ticketed, Leases!RolesOf
      <3>2. Fits(queues[r], r, tickets, arrivals)
        BY DEF ArrivalInv, QueuesInOrder
      <3>3. \E i \in 1..Len(queues[r]) : queues[r][i] = u
        BY <3>1, <3>2 DEF Fits
      <3>4. Len(queues[r]) = 0
        BY <2>1
      <3> QED
        BY <3>3, <3>4
    <2>3. Leases!Lock!Idle(o) /\ Leases!Lock!Take(o, R)
      BY <1>7, <1>8, <1>10, <2>2, ElsewhereTake
    <2> QED
      BY <1>5, <2>3 DEF Leases!Lock!Next
  <1>11. CASE o \notin Leases!Leased' \union Leases!Waiting'
    <2>1. UNCHANGED Leases!Lock!vars
      BY <1>7, <1>8, <1>11, ElsewhereSame
    <2> QED
      BY <1>5, <2>1
  <1> QED
    BY <1>7, <1>9, <1>10, <1>11

LEMMA RecheckInOrder ==
    ASSUME ArrivalInv, LeaseInv', NEW o \in Operations, Leases!Recheck(o)
    PROVE  QueuesInOrder' /\ [Leases!Lock!Next]_(Leases!Lock!vars)
  <1>1. /\ lease_pc[o] = "Woken" /\ arrivals' = arrivals
        /\ Leases!Look(o, queues, tickets)
    BY DEF Leases!Recheck
  <1>2. /\ o \in Leases!Ticketed /\ o \in Leases!Waiting /\ o \notin Leases!Leased
        /\ LeaseTypes /\ LeaseTypes'
    BY <1>1 DEF ArrivalInv, LeaseInv, TicketsAreHeld, Leases!Waiting, Leases!Leased
  <1>3. Found(o, queues, tickets, arrivals)
    BY <1>2, FoundAgain
  <1>4. QueuesInOrder'
    BY <1>1, <1>3, LookInOrder DEF ArrivalInv
  <1>5. /\ Elsewhere(o)
        /\ \/ /\ o \in Leases!Waiting' /\ o \notin Leases!Leased'
              /\ Leases!RolesOf(o)' = tickets[o].role_ids
           \/ /\ o \in Leases!Leased' /\ o \notin Leases!Waiting'
              /\ Leases!RolesOf(o)' = tickets[o].role_ids
              /\ Leases!IsReady(queues, o, tickets[o].role_ids)
           \/ o \notin Leases!Leased' \union Leases!Waiting'
    BY <1>1, <1>3, LookElsewhere DEF ArrivalInv
  <1>6. CASE o \in Leases!Waiting' /\ o \notin Leases!Leased' /\ Leases!RolesOf(o)' = tickets[o].role_ids
    <2>1. Leases!RolesOf(o)' = Leases!RolesOf(o)
      BY <1>6 DEF Leases!RolesOf
    <2>2. UNCHANGED Leases!Lock!vars
      BY <1>1, <1>2, <1>5, <1>6, <2>1, ElsewhereSame
    <2> QED
      BY <1>4, <2>2
  <1>7. CASE /\ o \in Leases!Leased' /\ o \notin Leases!Waiting'
             /\ Leases!RolesOf(o)' = tickets[o].role_ids
             /\ Leases!IsReady(queues, o, tickets[o].role_ids)
    <2> DEFINE R == tickets[o].role_ids
    <2>1. ASSUME NEW r \in R
          PROVE  /\ queues[r] \in Seq(Operations) /\ queues[r] # <<>> /\ queues[r][1] = o
                 /\ Fits(queues[r], r, tickets, arrivals)
      <3>1. r \in Roles
        BY <1>2 DEF LeaseTypes, IsTicket
      <3>2. queues[r] \in Seq(Operations) /\ queues[r] # <<>> /\ Head(queues[r]) = o
        BY <1>7, <3>1 DEF Leases!IsReady, ArrivalInv, QueuesInOrder
      <3> QED
        BY <3>1, <3>2 DEF ArrivalInv, QueuesInOrder
    <2>2. ASSUME NEW u \in Leases!Leased, NEW r \in R, r \in Leases!RolesOf(u) PROVE FALSE
      <3>1. queues[r][1] = u
        BY <2>2 DEF ArrivalInv, QueuesInOrder
      <3> QED
        BY <1>2, <2>1, <3>1
    <2>3. ASSUME NEW u \in Leases!Before[o], NEW r \in R, r \in Leases!RolesOf(u) PROVE FALSE
      <3>1. u \in Leases!Waiting /\ Lists(arrivals, u, o)
        BY <1>2 DEF Leases!Before, Leases!Precedes, Lists
      <3>2. u # o /\ ~Lists(arrivals, o, u)
        BY <3>1, ListedOnce DEF ArrivalInv, QueuesInOrder
      <3>3. PICK i \in 1..Len(queues[r]) : queues[r][i] = u
        BY <2>1, <2>3, <3>1 DEF Fits, Leases!Waiting, Leases!Ticketed, Leases!RolesOf
      <3>4. 1 \in 1..(i - 1)
        BY <2>1, <3>2, <3>3
      <3>5. Lists(arrivals, queues[r][1], queues[r][i])
        BY <2>1, <3>4 DEF Fits
      <3> QED
        BY <2>1, <3>2, <3>3, <3>5
    <2>4. Leases!Wants[o] = R
      BY <1>2 DEF Leases!Wants, Leases!RolesOf
    <2>5. \A u \in Leases!Leased \union Leases!Before[o] : Leases!Wants[u] \cap R = {}
      <3>1. \A u \in Leases!Leased \union Leases!Before[o] : Leases!Wants[u] = Leases!RolesOf(u)
        BY <1>2 DEF Leases!Wants, Leases!Before, LeaseTypes, Leases!Leased, Leases!Waiting
      <3> HIDE DEF R
      <3> QED
        BY <2>2, <2>3, <3>1
    <2>6. Leases!Lock!Free(o)
      BY <2>4, <2>5 DEF Leases!Lock!Free, Leases!Lock!Overlap
    <2>7. Leases!Lock!Withdrawn(o)
      BY <1>2, <1>5, <1>7, ElsewhereWithdrawn
    <2>8. Leases!Leased' = Leases!Leased \union {o}
      BY <1>5, <1>7 DEF Elsewhere
    <2>9. Leases!Wants' = Leases!Wants
      <3>1. Leases!Wants'[o] = R
        BY <1>7 DEF Leases!Wants
      <3> QED
        BY <1>5, <2>4, <3>1 DEF Elsewhere, Leases!Wants
    <2>10. Leases!Lock!Grant(o)
      BY <1>2, <2>6, <2>7, <2>8, <2>9 DEF Leases!Lock!Grant
    <2> QED
      BY <1>4, <2>10 DEF Leases!Lock!Next
  <1>8. CASE o \notin Leases!Leased' \union Leases!Waiting'
    <2>1. Leases!Lock!Withdrawn(o)
      BY <1>2, <1>5, <1>8, ElsewhereWithdrawn
    <2>2. Leases!Leased' = Leases!Leased
      BY <1>2, <1>5, <1>8 DEF Elsewhere
    <2>3. Leases!Wants' = [Leases!Wants EXCEPT ![o] = {}]
      <3>1. Leases!Wants'[o] = {}
        BY <1>8 DEF Leases!Wants
      <3> QED
        BY <1>5, <3>1 DEF Elsewhere, Leases!Wants
    <2>4. Leases!Lock!Refuse(o)
      BY <1>2, <2>1, <2>2, <2>3 DEF Leases!Lock!Refuse
    <2> QED
      BY <1>4, <2>4 DEF Leases!Lock!Next
  <1> QED
    BY <1>5, <1>6, <1>7, <1>8

LEMMA EndedReleases ==
    ASSUME ArrivalInv, LeaseInv', NEW o \in Operations, Leases!Ended(o)
    PROVE  QueuesInOrder' /\ [Leases!Lock!Next]_(Leases!Lock!vars)
  <1>1. /\ lease_pc[o] = "Leased"
        /\ lease_pc' = Leases!Notify([lease_pc EXCEPT ![o] = "Done"])
        /\ tickets' = [u \in DOMAIN tickets \ {o} |-> tickets[u]]
        /\ arrivals' = arrivals
    BY DEF Leases!Ended, Leases!RemoveTicket
  <1>2. /\ o \in Leases!Leased /\ o \notin Leases!Waiting /\ LeaseTypes /\ LeaseTypes'
    BY <1>1 DEF ArrivalInv, LeaseInv, TicketsAreHeld, Leases!Waiting, Leases!Leased
  <1>3. \A u \in Operations \ {o} :
           \/ lease_pc'[u] = lease_pc[u]
           \/ lease_pc[u] = "Asleep" /\ lease_pc'[u] = "Woken"
    BY <1>1, <1>2, NotifyWakes DEF States
  <1>4. /\ Leases!Ticketed' = Leases!Ticketed \ {o}
        /\ \A u \in Leases!Ticketed \ {o} : tickets'[u] = tickets[u]
    BY <1>1 DEF Leases!Ticketed
  <1>5. Elsewhere(o)
    <2>1. Leases!Ticketed' \ {o} = Leases!Ticketed \ {o}
      BY <1>4
    <2> QED
      BY <1>1, <1>2, <1>3, <1>4, <2>1, OthersWait
  <1>6. o \notin Leases!Leased' /\ o \notin Leases!Waiting'
    BY <1>4 DEF Leases!Leased, Leases!Waiting
  <1>7. Leases!Leased' = Leases!Leased \ {o} /\ Leases!Waiting' = Leases!Waiting
    BY <1>2, <1>5, <1>6 DEF Elsewhere
  <1>8. Leases!Wants' = [Leases!Wants EXCEPT ![o] = {}]
    <2>1. Leases!Wants'[o] = {}
      BY <1>6 DEF Leases!Wants
    <2> QED
      BY <1>5, <2>1 DEF Elsewhere, Leases!Wants
  <1>9. Leases!Before' = Leases!Before
    BY <1>1, <1>7 DEF Leases!Before, Leases!Precedes
  <1>10. Leases!Lock!Release(o)
    BY <1>2, <1>7, <1>8, <1>9 DEF Leases!Lock!Release
  <1>11. QueuesInOrder'
    BY EndedInOrder
  <1> QED
    BY <1>10, <1>11 DEF Leases!Lock!Next

\* Steps that only wake, or turn down an operation that has no ticket.
LEMMA QuietInOrder ==
    ASSUME ArrivalInv, LeaseInv', UNCHANGED <<queues, tickets, arrivals>>,
           \A u \in Operations :
               \/ lease_pc'[u] = lease_pc[u]
               \/ lease_pc[u] = "Asleep" /\ lease_pc'[u] = "Woken"
               \/ lease_pc[u] = "New" /\ lease_pc'[u] = "ShuttingDown"
    PROVE  QueuesInOrder' /\ [Leases!Lock!Next]_(Leases!Lock!vars)
  <1>1. /\ Leases!Ticketed' = Leases!Ticketed /\ Leases!Ticketed \subseteq Operations
        /\ \A u \in Leases!Ticketed : lease_pc[u] # "New"
    BY DEF Leases!Ticketed, ArrivalInv, LeaseInv, LeaseTypes, TicketsAreHeld
  <1>2. Leases!Leased' = Leases!Leased /\ Leases!Waiting' = Leases!Waiting
    BY <1>1 DEF Leases!Leased, Leases!Waiting
  <1>3. \A i \in 1..Len(arrivals) : lease_pc'[arrivals[i]] # "New"
    <2>1. \A i \in 1..Len(arrivals) : arrivals[i] \in Operations /\ lease_pc[arrivals[i]] # "New"
      BY DEF ArrivalInv, QueuesInOrder
    <2> QED
      BY <2>1
  <1>4. QueuesInOrder'
    BY <1>1, <1>2, <1>3 DEF ArrivalInv, QueuesInOrder, Leases!RolesOf
  <1>5. UNCHANGED Leases!Lock!vars
    BY <1>2 DEF Leases!Lock!vars, Leases!Wants, Leases!RolesOf, Leases!Before, Leases!Precedes
  <1> QED
    BY <1>4, <1>5

LEMMA LeasesInit == Leases!Init => ArrivalInv /\ Leases!Lock!Init
  <1> SUFFICES ASSUME Leases!Init PROVE QueuesInOrder /\ Leases!Lock!Init
    BY LeaseInit DEF ArrivalInv
  <1>1. /\ Leases!Ticketed = {} /\ Leases!Leased = {} /\ Leases!Waiting = {}
        /\ DOMAIN tickets = {}
    BY DEF Leases!Init, Leases!Ticketed, Leases!Leased, Leases!Waiting
  <1>2. Len(<<>>) = 0 /\ 1..0 = {} /\ <<>> \in Seq(Operations)
    OBVIOUS
  <1>3. arrivals = <<>> /\ queues = [r \in Roles |-> <<>>]
    BY DEF Leases!Init
  <1>4. \A r \in Roles : Fits(queues[r], r, tickets, arrivals)
    BY <1>1, <1>2, <1>3 DEF Fits
  <1>5. QueuesInOrder
    BY <1>1, <1>2, <1>3, <1>4 DEF QueuesInOrder, Once
  <1>6. Leases!Lock!Init
    BY <1>1 DEF Leases!Lock!Init, Leases!Before, Leases!Wants
  <1> QED
    BY <1>5, <1>6

LEMMA LeasesStep ==
    ArrivalInv /\ [Leases!Next]_leaseVars => ArrivalInv' /\ [Leases!Lock!Next]_(Leases!Lock!vars)
  <1> SUFFICES ASSUME ArrivalInv, [Leases!Next]_leaseVars
               PROVE  QueuesInOrder' /\ [Leases!Lock!Next]_(Leases!Lock!vars)
    BY LeaseStep DEF ArrivalInv
  <1>0. LeaseInv' /\ lease_pc \in [Operations -> States]
    BY LeaseStep DEF ArrivalInv, LeaseInv, LeaseTypes
  <1>1. ASSUME NEW o \in Operations, NEW kind \in Leases!Kinds,
               NEW R \in (SUBSET Roles) \ {{}}, Leases!Acquire(o, kind, R)
        PROVE  QueuesInOrder' /\ [Leases!Lock!Next]_(Leases!Lock!vars)
    BY <1>0, <1>1, AcquireInOrder
  <1>2. ASSUME NEW o \in Operations, Leases!Recheck(o)
        PROVE  QueuesInOrder' /\ [Leases!Lock!Next]_(Leases!Lock!vars)
    BY <1>0, <1>2, RecheckInOrder
  <1>3. ASSUME NEW o \in Operations,
               \/ Leases!Complete(o) \/ Leases!Abort(o)
               \/ \E retained \in SUBSET Leases!RolesOf(o) :
                     Leases!CompleteRetained(o, retained)
        PROVE  QueuesInOrder' /\ [Leases!Lock!Next]_(Leases!Lock!vars)
    <2>1. Leases!Ended(o)
      BY <1>3 DEF Leases!Complete, Leases!Abort, Leases!CompleteRetained
    <2> QED
      BY <1>0, <2>1, EndedReleases
  <1>4. ASSUME NEW o \in Operations, Leases!AcquireTurnedDown(o) \/ Leases!WakeSpuriously(o)
        PROVE  QueuesInOrder' /\ [Leases!Lock!Next]_(Leases!Lock!vars)
    <2>1. UNCHANGED <<queues, tickets, arrivals>>
      BY <1>4 DEF Leases!AcquireTurnedDown, Leases!WakeSpuriously
    <2>2. \A u \in Operations :
             \/ lease_pc'[u] = lease_pc[u]
             \/ lease_pc[u] = "Asleep" /\ lease_pc'[u] = "Woken"
             \/ lease_pc[u] = "New" /\ lease_pc'[u] = "ShuttingDown"
      BY <1>0, <1>4 DEF Leases!AcquireTurnedDown, Leases!WakeSpuriously
    <2> QED
      BY <1>0, <2>1, <2>2, QuietInOrder
  <1>5. CASE Leases!BeginShutdown
    <2>1. /\ UNCHANGED <<queues, tickets, arrivals>>
          /\ \A u \in Operations :
                \/ lease_pc'[u] = lease_pc[u]
                \/ lease_pc[u] = "Asleep" /\ lease_pc'[u] = "Woken"
      BY <1>0, <1>5 DEF Leases!BeginShutdown, Leases!Notify
    <2> QED
      BY <1>0, <2>1, QuietInOrder
  <1>6. CASE UNCHANGED leaseVars
    BY <1>0, <1>6, QuietInOrder DEF leaseVars
  <1> QED
    BY <1>1, <1>2, <1>3, <1>4, <1>5, <1>6 DEF Leases!Next

-----------------------------------------------------------------------------
(* The operations that compose the locks.                                  *)

Circles == INSTANCE RuntimeLocksProofs WITH Appearance <- FALSE

LEMMA FlowsAreFlows ==
    /\ Flows!Init => Circles!Init
    /\ [Flows!Next]_flowVars => [Circles!Next]_flowVars
    /\ Circles!NoCircularWait => NoCircularWait
  <1>1. Circles!Flows = Flows!Flows
    BY DEF Circles!Flows, Flows!Flows, Circles!WindowCommand, Flows!WindowCommand,
           Circles!UiAction, Flows!UiAction, Circles!Stop, Flows!Stop, Circles!TakeOver,
           Flows!TakeOver, Circles!CloseWindow, Flows!CloseWindow, Circles!HostEvent,
           Flows!HostEvent, Circles!HostMove, Flows!HostMove, Circles!HostStop,
           Flows!HostStop, Circles!ProjectAppearance, Flows!ProjectAppearance,
           Circles!Take, Flows!Take, Circles!Release, Flows!Release, Circles!Lanes,
           Flows!Lanes, Circles!Leases, Flows!Leases, Circles!Window, Flows!Window,
           Circles!Runtime, Flows!Runtime, Circles!Workspaces, Flows!Workspaces
  <1>2. Flows!Init => Circles!Init
    BY DEF Flows!Init, Circles!Init
  <1>3. \A o, p : Flows!WaitsFor(o, p) <=> Circles!WaitsFor(o, p)
    BY DEF Flows!WaitsFor, Circles!WaitsFor, Flows!Asks, Circles!Asks
  <1>4. Flows!Waiting = Circles!Waiting
    BY DEF Flows!Waiting, Circles!Waiting
  <1>5. Circles!NoCircularWait => NoCircularWait
    BY <1>3, <1>4 DEF NoCircularWait, Flows!NoCircularWait, Circles!NoCircularWait
  <1>6. ASSUME NEW o \in Operations
        PROVE  /\ Flows!Begin(o) => Circles!Begin(o)
               /\ Flows!Ask(o) => Circles!Ask(o)
               /\ Flows!Grant(o) => Circles!Grant(o)
               /\ Flows!Drop(o) => Circles!Drop(o)
               /\ Flows!Return(o) => Circles!Return(o)
    <2>1. Flows!Queues(o) => Circles!Queues(o)
      BY <1>4 DEF Flows!Queues, Circles!Queues
    <2>2. Flows!Begin(o) => Circles!Begin(o)
      BY <1>1, <2>1 DEF Flows!Begin, Circles!Begin
    <2>3. Flows!Ask(o) => Circles!Ask(o)
      BY <1>4, <2>1 DEF Flows!Ask, Circles!Ask
    <2>4. Flows!Grant(o) => Circles!Grant(o)
      BY <1>3, <1>4 DEF Flows!Grant, Circles!Grant, Flows!Asks, Circles!Asks
    <2>5. Flows!Drop(o) => Circles!Drop(o)
      BY DEF Flows!Drop, Circles!Drop
    <2>6. Flows!Return(o) => Circles!Return(o)
      BY <1>4 DEF Flows!Return, Circles!Return
    <2> QED
      BY <2>2, <2>3, <2>4, <2>5, <2>6
  <1>7. Flows!Next => Circles!Next
    BY <1>6 DEF Flows!Next, Circles!Next
  <1> QED
    BY <1>2, <1>5, <1>7

-----------------------------------------------------------------------------
(* A behaviour of the four is one of each.                                 *)

LEMMA EachInit == MCInit => Init /\ Sequence!Init /\ Leases!Init /\ Circles!Init
  BY FlowsAreFlows DEF MCInit

LEMMA EachStep ==
    [MCNext]_allVars =>
       /\ [Next]_vars /\ [Sequence!Next]_sequenceVars
       /\ [Leases!Next]_leaseVars /\ [Circles!Next]_flowVars
  <1>1. [MCNext]_allVars =>
           /\ [Next]_vars /\ [Sequence!Next]_sequenceVars
           /\ [Leases!Next]_leaseVars /\ [Flows!Next]_flowVars
    BY DEF MCNext, allVars
  <1> QED
    BY <1>1, FlowsAreFlows

\* No window's lane is held by two permits, and `active' is exactly what is
\* held, for any number of threads, windows and tickets.
THEOREM PermitsExclude == Spec => []HeldOnce
  <1>1. PermitInv => HeldOnce
    BY DEF PermitInv
  <1> QED
    BY <1>1, PermitInit, PermitStep, PTL DEF Spec

\* Each of the three locks serves what overlaps one at a time and in the order in
\* which it was asked for, whatever the others do: the queues, their tickets, the
\* counters that wrap and the wake-ups are only ever seen as that.
THEOREM LocksServeInOrder == MCSpec => EachServesInOrder
  <1>1. MCSpec => ServedInOrder
    BY EachInit, EachStep, LanesInit, LanesStep, PTL DEF MCSpec, ServedInOrder, Lock!InOrder
  <1>2. MCSpec => Sequence!ServedInOrder
    BY EachInit, EachStep, SequenceInit, SequenceStep, PTL
    DEF MCSpec, Sequence!ServedInOrder, Sequence!Lock!InOrder
  <1>3. MCSpec => Leases!ServedInOrder
    BY EachInit, EachStep, LeasesInit, LeasesStep, PTL
    DEF MCSpec, Leases!ServedInOrder, Leases!Lock!InOrder
  <1> QED
    BY <1>1, <1>2, <1>3 DEF EachServesInOrder

\* A role is blocked while a destructive lease on it lasts, and for good once
\* it is deleted; whatever is aborted, completed or kept meanwhile.
THEOREM DeletedStayBlocked == MCSpec => []BlockedUntilAborted
  <1>1. LeaseInv => BlockedUntilAborted
    BY DEF LeaseInv
  <1> QED
    BY <1>1, EachInit, EachStep, LeaseInit, LeaseStep, PTL DEF MCSpec

\* An operation is turned down for changed data exactly when a recoverable
\* mutation of one of its roles has overtaken it in the queue.
THEOREM OvertakenAreTurnedDown == MCSpec => []OutrunIsTurnedDown
  <1>1. LeaseInv => OutrunIsTurnedDown
    BY DEF LeaseInv
  <1> QED
    BY <1>1, EachInit, EachStep, LeaseInit, LeaseStep, PTL DEF MCSpec

\* The operations of the Core that leave the appearance of workspaces alone
\* never wait for each other in a circle, however many they are.
THEOREM CoreNeverDeadlocks ==
    ASSUME IsFiniteSet(Operations)
    PROVE  MCSpec => []NoCircularWait
  <1>1. RolesIn \in [Windows -> SUBSET Roles]
    BY DEF RolesIn
  <1>2. Circles!Init => Circles!Inv
    BY <1>1, Circles!InitInv
  <1>3. Circles!Inv /\ [Circles!Next]_flowVars => Circles!Inv'
    BY <1>1, Circles!StepInv DEF Circles!vars, flowVars
  <1>4. Circles!Inv => NoCircularWait
    <2>1. Circles!IsFiniteSet(Operations)
      BY DEF Circles!IsFiniteSet, IsFiniteSet
    <2>2. Circles!Inv => Circles!NoCircularWait
      BY <2>1, Circles!InvAvoidsCircles
    <2> QED
      BY <2>2, FlowsAreFlows
  <1> QED
    BY <1>2, <1>3, <1>4, EachInit, EachStep, PTL DEF MCSpec

=============================================================================
