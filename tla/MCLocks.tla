------------------------------- MODULE MCLocks -------------------------------
(***************************************************************************)
(* The locks of the Core, one of them at a time: the lanes of native hosts *)
(* (this module extends their sequence), the sequence of the embedded      *)
(* runtime and the leases of roles; and the operations that compose them.  *)
(* A behaviour is of one of these four, and the others keep still.         *)
(***************************************************************************)
EXTENDS RuntimeScopedSequence

CONSTANTS SequenceThreads, SequenceSpan, Operations, Roles, Windows

VARIABLES
    subject,
    next_ticket, serving_ticket, sequence_pc, sequence_ticket,
    blocked_role_ids, queues, role_versions, shutting_down, tickets, lease_pc,
    idle, arrivals, outrun, deleted,
    flow, held, ahead

sequenceVars == <<next_ticket, serving_ticket, sequence_pc, sequence_ticket>>
leaseVars == <<blocked_role_ids, queues, role_versions, shutting_down, tickets, lease_pc,
               idle, arrivals, outrun, deleted>>
flowVars == <<flow, held, ahead>>
allVars == <<subject, vars, sequenceVars, leaseVars, flowVars>>

Sequence == INSTANCE RuntimeOperationSequence WITH
                Threads <- SequenceThreads, TicketSpan <- SequenceSpan,
                pc <- sequence_pc, ticket <- sequence_ticket
Leases == INSTANCE BrowserOperations WITH pc <- lease_pc
RolesIn == [w \in Windows |-> Roles]
Flows == INSTANCE RuntimeLocks WITH Appearance <- FALSE

ASSUME SequenceAssumption == Sequence!SpanAssumption

MCInit ==
    /\ Init /\ Sequence!Init /\ Leases!Init /\ Flows!Init
    /\ subject \in {"lanes", "sequence", "leases", "flows"}

MCNext ==
    \/ /\ subject = "lanes" /\ Next
       /\ UNCHANGED <<subject, sequenceVars, leaseVars, flowVars>>
    \/ /\ subject = "sequence" /\ Sequence!Next
       /\ UNCHANGED <<subject, vars, leaseVars, flowVars>>
    \/ /\ subject = "leases" /\ Leases!Next
       /\ UNCHANGED <<subject, vars, sequenceVars, flowVars>>
    \/ /\ subject = "flows" /\ Flows!Next
       /\ UNCHANGED <<subject, vars, sequenceVars, leaseVars>>

MCSpec ==
    /\ MCInit
    /\ [][MCNext]_allVars
    /\ Fairness
    /\ Sequence!Fairness
    /\ Leases!Fairness

-----------------------------------------------------------------------------
\* Each of the three is a lock: what overlaps is served one at a time, first come
\* first served, or turned down by a lease coordinator that shuts down or has
\* blocked the role.
EachServesInOrder == ServedInOrder /\ Sequence!ServedInOrder /\ Leases!ServedInOrder

\* A role is blocked exactly while it is being deleted, and for good afterwards.
BlockedUntilAborted == Leases!BlockedUntilAborted

\* A normal operation never runs on what it knew of a role before a recoverable
\* mutation of it began.
OutrunIsTurnedDown == Leases!OutrunIsTurnedDown

\* Nobody is forgotten: what nobody stands in the way of is decided, even if
\* whoever holds something else keeps it for good, and a wake-up is never lost
\* between two looks; shutdown turns down every operation that waits for a
\* lease, and ends idle.
WaitersGoOn ==
    /\ FreeIsServed /\ Sequence!FreeIsServed /\ Leases!FreeIsServed
    /\ Leases!ShutdownReleasesWaiters

\* No operations of the Core wait for each other in a circle.
NoCircularWait == Flows!NoCircularWait
=============================================================================
