----------------------------- MODULE ScopedLock -----------------------------
(***************************************************************************)
(* What the runtime sequences and the browser operation leases of          *)
(* rion-core promise: a lock over a set of scopes (windows, roles) that an *)
(* operation holds for any subset of them.  Two requests that share a      *)
(* scope are served one at a time, in the order in which they were made;   *)
(* two that share none do not wait for each other; and a request that      *)
(* nobody stands in the way of any more is served.                         *)
(***************************************************************************)
CONSTANTS
    Threads,
    Scopes,
    MayRefuse       \* TRUE or FALSE: whether a request may be turned down while it waits

VARIABLES
    waiting,    \* the threads that wait
    before,     \* for each of them, the threads that wait and asked before it
    holders,    \* the threads that hold a permit
    wants       \* the scopes a waiting or holding thread asked for

vars == <<waiting, before, holders, wants>>

Overlap(t, u) == wants[t] \cap wants[u] # {}

\* Nobody holds, and nobody asked before t for, a scope that t wants.
Free(t) == \A u \in holders \cup before[t] : ~Overlap(t, u)

Init ==
    /\ waiting = {}
    /\ before = [t \in Threads |-> {}]
    /\ holders = {}
    /\ wants = [t \in Threads |-> {}]

Idle(t) == t \notin holders \cup waiting

\* For an idle thread: it waits, behind those that do already.
Request(t, S) ==
    /\ waiting' = waiting \cup {t}
    /\ before' = [before EXCEPT ![t] = waiting]
    /\ wants' = [wants EXCEPT ![t] = S]
    /\ UNCHANGED holders

\* For an idle thread: a request that nobody stands in the way of may be served
\* at once.
Take(t, S) ==
    /\ \A u \in holders \cup waiting : wants[u] \cap S = {}
    /\ holders' = holders \cup {t}
    /\ wants' = [wants EXCEPT ![t] = S]
    /\ UNCHANGED <<waiting, before>>

\* The request of t is no longer waiting, nor before any other.
Withdrawn(t) ==
    /\ waiting' = waiting \ {t}
    /\ before' = [u \in Threads |-> IF u = t THEN {} ELSE before[u] \ {t}]

Grant(t) ==
    /\ t \in waiting
    /\ Free(t)
    /\ Withdrawn(t)
    /\ holders' = holders \cup {t}
    /\ UNCHANGED wants

\* A request that is turned down goes without ever holding.
Refuse(t) ==
    /\ MayRefuse
    /\ t \in waiting
    /\ Withdrawn(t)
    /\ wants' = [wants EXCEPT ![t] = {}]
    /\ UNCHANGED holders

Release(t) ==
    /\ t \in holders
    /\ holders' = holders \ {t}
    /\ wants' = [wants EXCEPT ![t] = {}]
    /\ UNCHANGED <<waiting, before>>

Next ==
    \E t \in Threads :
        \/ Grant(t)
        \/ Refuse(t)
        \/ Release(t)
        \/ /\ Idle(t)
           /\ \E S \in (SUBSET Scopes) \ {{}} : Request(t, S) \/ Take(t, S)

\* Requests are only served in their order; whether they are is not said.
InOrder == Init /\ [][Next]_vars

\* A free request is served or turned down; letting go is up to its holder.
Decide(t) == Grant(t) \/ (Free(t) /\ Refuse(t))

Decided == \A t \in Threads : WF_vars(Decide(t))

Spec == InOrder /\ Decided
=============================================================================
