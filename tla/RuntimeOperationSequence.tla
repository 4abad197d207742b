---------------------- MODULE RuntimeOperationSequence ----------------------
(***************************************************************************)
(* runtime_sequence.rs: the ticket lock that serializes the mutations of   *)
(* the embedded runtime.  acquire locks the mutex twice: once to take a    *)
(* ticket, once to wait until it is served; a permit may be dropped in     *)
(* between, and its notification then reaches nobody.  An action is one    *)
(* critical section.                                                       *)
(***************************************************************************)
EXTENDS Naturals, Sequences, FiniteSets

CONSTANTS
    Threads,
    TicketSpan      \* 2^64: tickets wrap, and are served in order, so that
                    \* one more than there are threads is enough

SpanAssumption ==
    /\ IsFiniteSet(Threads)
    /\ TicketSpan \in Nat
    /\ Cardinality(Threads) < TicketSpan

VARIABLES
    next_ticket,    \* SequenceState.next_ticket
    serving_ticket, \* SequenceState.serving_ticket
    pc,             \* where a thread is in acquire
    ticket          \* its local `ticket'

vars == <<next_ticket, serving_ticket, pc, ticket>>

\* wrapping_add
After(n) == (n + 1) % TicketSpan

Init ==
    /\ next_ticket = 0
    /\ serving_ticket = 0
    /\ pc = [t \in Threads |-> "Idle"]
    /\ ticket = [t \in Threads |-> 0]

\* The first critical section of acquire.
TakeTicket(t) ==
    /\ pc[t] = "Idle"
    /\ ticket' = [ticket EXCEPT ![t] = next_ticket]
    /\ next_ticket' = After(next_ticket)
    /\ pc' = [pc EXCEPT ![t] = "Awake"]
    /\ UNCHANGED serving_ticket

Served(t) == serving_ticket = ticket[t]

\* The second one: the loop looks at serving_ticket before it sleeps, and
\* each time it wakes up.
Look(t) ==
    /\ pc[t] = "Awake"
    /\ pc' = [pc EXCEPT ![t] = IF Served(t) THEN "Holding" ELSE "Asleep"]
    /\ UNCHANGED <<next_ticket, serving_ticket, ticket>>

\* Condvar::wait may return for no reason.
WakeSpuriously(t) ==
    /\ pc[t] = "Asleep"
    /\ pc' = [pc EXCEPT ![t] = "Awake"]
    /\ UNCHANGED <<next_ticket, serving_ticket, ticket>>

\* notify_all
Woken(asleep) == asleep

\* Drop of RuntimeOperationPermit
Drop(t) ==
    LET woken == Woken({u \in Threads : pc[u] = "Asleep"}) IN
    /\ pc[t] = "Holding"
    /\ serving_ticket' = After(serving_ticket)
    /\ pc' = [u \in Threads |-> IF u = t THEN "Idle"
                                ELSE IF u \in woken THEN "Awake" ELSE pc[u]]
    /\ UNCHANGED <<next_ticket, ticket>>

Next == \E t \in Threads : TakeTicket(t) \/ Look(t) \/ WakeSpuriously(t) \/ Drop(t)

Spec == Init /\ [][Next]_vars

\* A thread that is awake gets the mutex.  Nothing says that a permit is ever
\* dropped.
Fairness == \A t \in Threads : WF_vars(Look(t))

-----------------------------------------------------------------------------
Waiting == {t \in Threads : pc[t] \in {"Awake", "Asleep"}}
Holding == {t \in Threads : pc[t] = "Holding"}

\* How many tickets are served before n, as the counters wrap.
Ahead(n) == (n + TicketSpan - serving_ticket) % TicketSpan

\* Tickets in use are exactly those from serving_ticket to next_ticket, one
\* per thread, although the counters wrap and the ticket that a thread holds
\* is given back by a counter that never looks at it.
TicketsInUse ==
    LET inUse == Waiting \cup Holding IN
    /\ Cardinality(inUse) = Ahead(next_ticket)
    /\ {Ahead(ticket[t]) : t \in inUse} = 0..Ahead(next_ticket) - 1
    /\ \A t \in Holding : ticket[t] = serving_ticket

\* The types of the variables; the tickets in use are those between the counters.
TypeOK ==
    /\ next_ticket \in 0..TicketSpan - 1
    /\ serving_ticket \in 0..TicketSpan - 1
    /\ pc \in [Threads -> {"Idle", "Awake", "Asleep", "Holding"}]
    /\ ticket \in [Threads -> 0..TicketSpan - 1]
    /\ TicketsInUse

-----------------------------------------------------------------------------
\* The sequence is a lock with one scope.
Before == [t \in Threads |->
              IF t \in Waiting
              THEN {u \in Waiting : Ahead(ticket[u]) < Ahead(ticket[t])} ELSE {}]
Wants == [t \in Threads |-> IF t \in Waiting \cup Holding THEN {"runtime"} ELSE {}]
Lock == INSTANCE ScopedLock WITH
            MayRefuse <- FALSE,
            Scopes <- {"runtime"},
            waiting <- Waiting,
            before <- Before,
            holders <- Holding,
            wants <- Wants

\* Mutations of the embedded runtime run one at a time, in the order in
\* which they asked.
ServedInOrder == Lock!InOrder

\* The next one runs when the one before it has ended, also if that was
\* before it looked for the first time.
FreeIsServed == Lock!Decided
=============================================================================
