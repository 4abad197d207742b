------------------------ MODULE RuntimeScopedSequence ------------------------
(***************************************************************************)
(* runtime_scoped_sequence.rs: orders overlapping window mutations without *)
(* blocking an unrelated window.  A thread enters under the mutex, queues  *)
(* its scopes, and sleeps on a condition variable while it is blocked; a   *)
(* permit that is dropped wakes every sleeper.  An action is one critical  *)
(* section of the mutex.                                                   *)
(***************************************************************************)
EXTENDS Naturals, Sequences, SequencesExt

CONSTANTS
    Threads,
    Scopes,         \* window ids
    TicketSpan      \* bound: the number of tickets, 2^64 in the code

ASSUME SpanAssumption == TicketSpan \in Nat \ {0}

VARIABLES
    next,           \* State.next
    active,         \* State.active
    pending,        \* State.pending
    pc,             \* where a thread is in acquire
    ticket,         \* its local `ticket'
    scopes          \* its local `scopes', then those of its permit

vars == <<next, active, pending, pc, ticket, scopes>>

Init ==
    /\ next = 0
    /\ active = {}
    /\ pending = <<>>
    /\ pc = [t \in Threads |-> "Idle"]
    /\ ticket = [t \in Threads |-> 0]
    /\ scopes = [t \in Threads |-> {}]

Disjoint(S, T) == S \cap T = {}

\* take_while(id # ticket): the requests before the own one in the queue.
Blocked(queue, id, S) ==
    \/ ~Disjoint(active, S)
    \/ \E i \in 1..Len(queue) :
          /\ ~Disjoint(queue[i].scopes, S)
          /\ \A j \in 1..i : queue[j].id # id

\* pending.retain: the request with this ticket leaves the queue.  No other one
\* has it (see Enter).
Leave(queue, id) == RemoveFirstMatch(queue, LAMBDA r : r.id = id)

\* Mutant: notify_one.
OneOf(t, asleep) == IF asleep = {} THEN {} ELSE {CHOOSE u \in asleep : TRUE}

\* notify_all
Woken(t, asleep) == asleep

\* wrapping_add
After(id) == (id + 1) % TicketSpan

\* `next' wraps, and nothing stops it from meeting the ticket of a request
\* that is still queued: TicketSpan acquisitions of other scopes while one
\* request waits.  The guard on pending assumes that this does not happen;
\* without it, both requests leave the queue when one of them is served.
Enter(t, S) ==
    LET queue == Append(pending, [id |-> next, scopes |-> S])
        blocked == Blocked(queue, next, S)
    IN  /\ pc[t] = "Idle"
        /\ \A i \in 1..Len(pending) : pending[i].id # next
        /\ next' = After(next)
        /\ ticket' = [ticket EXCEPT ![t] = next]
        /\ scopes' = [scopes EXCEPT ![t] = S]
        /\ pending' = IF blocked THEN queue ELSE Leave(queue, next)
        /\ active' = IF blocked THEN active ELSE active \cup S
        /\ pc' = [pc EXCEPT ![t] = IF blocked THEN "Asleep" ELSE "Holding"]

\* A thread that was woken, by a permit that was dropped or spuriously, looks
\* again.
Recheck(t) ==
    LET blocked == Blocked(pending, ticket[t], scopes[t]) IN
    /\ pc[t] = "Woken"
    /\ pending' = IF blocked THEN pending ELSE Leave(pending, ticket[t])
    /\ active' = IF blocked THEN active ELSE active \cup scopes[t]
    /\ pc' = [pc EXCEPT ![t] = IF blocked THEN "Asleep" ELSE "Holding"]
    /\ UNCHANGED <<next, ticket, scopes>>

\* Condvar::wait may return for no reason.
WakeSpuriously(t) ==
    /\ pc[t] = "Asleep"
    /\ pc' = [pc EXCEPT ![t] = "Woken"]
    /\ UNCHANGED <<next, active, pending, ticket, scopes>>

\* Drop of RuntimeScopedPermit
Drop(t) ==
    LET asleep == {u \in Threads : pc[u] = "Asleep"} IN
    /\ pc[t] = "Holding"
    /\ active' = active \ scopes[t]
    /\ pc' = [u \in Threads |-> IF u = t THEN "Idle"
                                ELSE IF u \in Woken(t, asleep) THEN "Woken" ELSE pc[u]]
    /\ scopes' = [scopes EXCEPT ![t] = {}]
    /\ UNCHANGED <<next, pending, ticket>>

Next ==
    \E t \in Threads :
        \/ \E S \in (SUBSET Scopes) \ {{}} : Enter(t, S)
        \/ Recheck(t) \/ WakeSpuriously(t) \/ Drop(t)

Spec == Init /\ [][Next]_vars

\* A woken thread gets the mutex.  Nothing says that a permit is ever dropped.
Fairness == \A t \in Threads : WF_vars(Recheck(t))

-----------------------------------------------------------------------------
Waiting == {t \in Threads : pc[t] \in {"Asleep", "Woken"}}
Holding == {t \in Threads : pc[t] = "Holding"}

\* The queue is exactly the waiting threads, each once, under its own ticket
\* and scopes: serving one request leaves every other one in its place.
QueueIsWaiters ==
    /\ \A t \in Waiting : \E i \in 1..Len(pending) :
          pending[i] = [id |-> ticket[t], scopes |-> scopes[t]]
    /\ \A i \in 1..Len(pending) : \E t \in Waiting : pending[i].id = ticket[t]
    /\ \A i, j \in 1..Len(pending) : pending[i].id = pending[j].id => i = j

\* The types of the variables; the queue holds those who wait.
TypeOK ==
    /\ next \in 0..TicketSpan - 1
    /\ pc \in [Threads -> {"Idle", "Asleep", "Woken", "Holding"}]
    /\ ticket \in [Threads -> 0..TicketSpan - 1]
    /\ scopes \in [Threads -> SUBSET Scopes]
    /\ active \subseteq Scopes
    /\ pending \in Seq([id : 0..TicketSpan - 1, scopes : SUBSET Scopes])
    /\ QueueIsWaiters

\* No scope is held by two permits, and `active' is exactly what is held: a
\* permit that is dropped releases nothing that another one still holds.
HeldOnce ==
    /\ active = UNION {scopes[t] : t \in Holding}
    /\ \A t, u \in Holding : t # u => Disjoint(scopes[t], scopes[u])

-----------------------------------------------------------------------------
\* The sequence is the lock that the runtime relies on.
Precedes(u, t) ==
    \E j \in 1..Len(pending) : \E i \in 1..(j - 1) :
        pending[i].id = ticket[u] /\ pending[j].id = ticket[t]
Before == [t \in Threads |-> IF t \in Waiting THEN {u \in Waiting : Precedes(u, t)} ELSE {}]
Lock == INSTANCE ScopedLock WITH
            MayRefuse <- FALSE,
            waiting <- Waiting,
            before <- Before,
            holders <- Holding,
            wants <- scopes

\* Overlapping mutations are served one at a time, first come first served,
\* whoever wakes up first.
ServedInOrder == Lock!InOrder

\* A mutation that overlaps none before it is served, also while unrelated
\* ones keep their windows.
FreeIsServed == Lock!Decided
=============================================================================
