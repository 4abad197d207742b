-------------------------- MODULE BrowserOperations --------------------------
(***************************************************************************)
(* browser_operations.rs: the leases under which operations on roles run.  *)
(* An operation asks for a lease on a set of roles, queues for every one   *)
(* of them, and sleeps until it heads all of those queues; it is then      *)
(* leased or turned down.  An action is one critical section of the mutex. *)
(***************************************************************************)
EXTENDS Naturals, Sequences, SequencesExt

CONSTANTS
    Operations,     \* the calls of acquire, each with an id of its own
    Roles

Normal == "normal"
Recoverable == "recoverableMutation"
Destructive == "destructiveMutation"
Kinds == {Normal, Recoverable, Destructive}

VARIABLES
    blocked_role_ids,   \* CoordinatorState, field by field
    queues,
    role_versions,
    shutting_down,
    tickets,            \* operation -> its OperationTicket
    pc,                 \* where an operation is in acquire, or how it ended
    idle,               \* history: begin_shutdown_and_check_idle said TRUE
    arrivals,           \* history: the operations in the order they queued
    outrun,             \* history: the operations that were queued when a
                        \* recoverable mutation of one of their roles began
    deleted             \* history: the roles of completed destructive leases

vars == <<blocked_role_ids, queues, role_versions, shutting_down, tickets,
          pc, idle, arrivals, outrun, deleted>>

Ticketed == DOMAIN tickets
Kind(o) == tickets[o].kind
RolesOf(o) == tickets[o].role_ids
Leased == {o \in Ticketed : pc[o] = "Leased"}
Waiting == {o \in Ticketed : pc[o] \in {"Asleep", "Woken"}}

Init ==
    /\ blocked_role_ids = {}
    /\ queues = [r \in Roles |-> <<>>]
    /\ role_versions = [r \in Roles |-> 0]
    /\ shutting_down = FALSE
    /\ tickets = <<>>
    /\ pc = [o \in Operations |-> "New"]
    /\ idle = FALSE
    /\ arrivals = <<>>
    /\ outrun = {}
    /\ deleted = {}

-----------------------------------------------------------------------------
\* Condvar::notify_all
Notify(where) ==
    [o \in Operations |-> IF where[o] = "Asleep" THEN "Woken" ELSE where[o]]

\* retain: an operation stands once in a queue.
Dequeued(queue, o) == [r \in Roles |-> RemoveFirst(queue[r], o)]

\* remove_ticket, of an operation that may just have been queued.
RemoveTicket(o, queue, ticket) ==
    /\ queues' = Dequeued(queue, o)
    /\ tickets' = [u \in DOMAIN ticket \ {o} |-> ticket[u]]

IsReady(queue, o, R) == \A r \in R : queue[r] # <<>> /\ Head(queue[r]) = o

\* Mutant: only a version that fell counts as a change.
VersionFell(t) == \E r \in t.role_ids : role_versions[r] < t.queued_versions[r]

VersionChanged(t) == \E r \in t.role_ids : role_versions[r] # t.queued_versions[r]

\* The body of the loop of acquire, once for each time it is run.
Outcome(o, queue, ticket) ==
    LET t == ticket[o] IN
    IF shutting_down THEN "ShuttingDown"
    ELSE IF ~IsReady(queue, o, t.role_ids) THEN "Asleep"
    ELSE IF t.role_ids \cap blocked_role_ids # {} THEN "MutationBlocked"
    ELSE IF t.kind = Normal /\ VersionChanged(t) THEN "DataChanged"
    ELSE "Leased"

\* The role data a recoverable mutation is about to change gets a new version.
Granted(t) ==
    /\ role_versions' =
          [r \in Roles |-> IF t.kind = Recoverable /\ r \in t.role_ids
                           THEN role_versions[r] + 1 ELSE role_versions[r]]
    /\ blocked_role_ids' =
          IF t.kind = Destructive THEN blocked_role_ids \cup t.role_ids
          ELSE blocked_role_ids
    /\ outrun' =
          IF t.kind = Recoverable
          THEN outrun \cup {u \in Waiting : RolesOf(u) \cap t.role_ids # {}}
          ELSE outrun

Look(o, queue, ticket) ==
    LET outcome == Outcome(o, queue, ticket) IN
    CASE outcome = "Asleep" ->
            /\ pc' = [pc EXCEPT ![o] = "Asleep"]
            /\ queues' = queue
            /\ tickets' = ticket
            /\ UNCHANGED <<role_versions, blocked_role_ids, outrun>>
      [] outcome = "Leased" ->
            /\ pc' = [pc EXCEPT ![o] = "Leased"]
            /\ queues' = queue
            /\ tickets' = ticket
            /\ Granted(ticket[o])
      [] OTHER ->
            /\ pc' = Notify([pc EXCEPT ![o] = outcome])
            /\ RemoveTicket(o, queue, ticket)
            /\ UNCHANGED <<role_versions, blocked_role_ids, outrun>>

-----------------------------------------------------------------------------
\* Mutant: one of the queues is joined at its head.
QueuedApart(o, R) ==
    [r \in Roles |-> IF r \notin R THEN queues[r]
                     ELSE IF r = CHOOSE u \in R : TRUE THEN Append(queues[r], o)
                     ELSE <<o>> \o queues[r]]

\* The operation queues for all of its roles at once.
Queued(o, R) ==
    [r \in Roles |-> IF r \in R THEN Append(queues[r], o) ELSE queues[r]]

\* acquire, up to the lease, the refusal or the first wait
Acquire(o, kind, R) ==
    /\ pc[o] = "New"
    /\ ~shutting_down
    /\ arrivals' = Append(arrivals, o)
    /\ LET ticket == [kind |-> kind, role_ids |-> R,
                      queued_versions |-> [r \in R |-> role_versions[r]]]
       IN  Look(o, Queued(o, R),
                [u \in Ticketed \cup {o} |-> IF u = o THEN ticket ELSE tickets[u]])
    /\ UNCHANGED <<shutting_down, idle, deleted>>

AcquireTurnedDown(o) ==
    /\ pc[o] = "New"
    /\ shutting_down
    /\ pc' = [pc EXCEPT ![o] = "ShuttingDown"]
    /\ UNCHANGED <<blocked_role_ids, queues, role_versions, shutting_down, tickets,
                   idle, arrivals, outrun, deleted>>

\* A waiting operation wakes up and runs the loop again.
Recheck(o) ==
    /\ pc[o] = "Woken"
    /\ Look(o, queues, tickets)
    /\ UNCHANGED <<shutting_down, idle, arrivals, deleted>>

\* Condvar::wait may return for no reason.
WakeSpuriously(o) ==
    /\ pc[o] = "Asleep"
    /\ pc' = [pc EXCEPT ![o] = "Woken"]
    /\ UNCHANGED <<blocked_role_ids, queues, role_versions, shutting_down, tickets,
                   idle, arrivals, outrun, deleted>>

Ended(o) ==
    /\ pc[o] = "Leased"
    /\ pc' = Notify([pc EXCEPT ![o] = "Done"])
    /\ RemoveTicket(o, queues, tickets)
    /\ UNCHANGED <<role_versions, shutting_down, idle, arrivals, outrun>>

\* complete: the roles of a destructive lease stay blocked.
Complete(o) ==
    /\ Ended(o)
    /\ deleted' = IF Kind(o) = Destructive THEN deleted \cup RolesOf(o) ELSE deleted
    /\ UNCHANGED blocked_role_ids

\* Mutant: the deleted roles are unblocked and the others stay.
ReopenedDeleted(o, retained) == RolesOf(o) \cap retained

Reopened(o, retained) == RolesOf(o) \ retained

\* complete_destructive_with_retained_roles: only some of them do.
CompleteRetained(o, retained) ==
    /\ Ended(o)
    /\ Kind(o) = Destructive
    /\ deleted' = deleted \cup (RolesOf(o) \cap retained)
    /\ blocked_role_ids' = blocked_role_ids \ Reopened(o, retained)

\* abort: none does.
Abort(o) ==
    /\ Ended(o)
    /\ blocked_role_ids' =
          IF Kind(o) = Destructive THEN blocked_role_ids \ RolesOf(o)
          ELSE blocked_role_ids
    /\ UNCHANGED deleted

Idle == Ticketed = {}

\* Mutant: shutdown does not wake those who wait.
BeginShutdownSilently ==
    /\ shutting_down' = TRUE
    /\ idle' = (idle \/ Idle)
    /\ UNCHANGED <<blocked_role_ids, queues, role_versions, tickets, pc, arrivals, outrun, deleted>>

BeginShutdown ==
    /\ shutting_down' = TRUE
    /\ idle' = (idle \/ Idle)
    /\ pc' = Notify(pc)
    /\ UNCHANGED <<blocked_role_ids, queues, role_versions, tickets, arrivals, outrun, deleted>>

Next ==
    \/ \E o \in Operations :
          \/ \E kind \in Kinds, R \in (SUBSET Roles) \ {{}} : Acquire(o, kind, R)
          \/ AcquireTurnedDown(o)
          \/ Recheck(o)
          \/ WakeSpuriously(o)
          \/ Complete(o)
          \/ o \in Leased /\ \E retained \in SUBSET RolesOf(o) : CompleteRetained(o, retained)
          \/ Abort(o)
    \/ BeginShutdown

Spec == Init /\ [][Next]_vars

\* A thread that was woken gets the mutex.  Nothing is assumed of a lease: a
\* mutation may keep its own for good, and so may a launch that never ends.
Fairness == \A o \in Operations : WF_vars(Recheck(o))

-----------------------------------------------------------------------------
\* Every ticket stands once in the queue of each of its roles and in no other,
\* and the holder of a lease heads them all.
QueuesMatchTickets ==
    /\ \A r \in Roles, o \in Operations :
          Len(SelectSeq(queues[r], LAMBDA u : u = o)) =
              IF o \in Ticketed /\ r \in RolesOf(o) THEN 1 ELSE 0
    /\ \A o \in Leased : \A r \in RolesOf(o) : Head(queues[r]) = o

\* The types of the variables that model the code; the queues hold the tickets,
\* so that the refusal of one operation leaves no trace that another waits behind.
TypeOK ==
    /\ blocked_role_ids \subseteq Roles
    /\ queues \in [Roles -> Seq(Operations)]
    /\ role_versions \in [Roles -> Nat]
    /\ shutting_down \in BOOLEAN
    /\ Ticketed \subseteq Operations
    /\ \A o \in Ticketed :
          /\ Kind(o) \in Kinds
          /\ RolesOf(o) \in (SUBSET Roles) \ {{}}
          /\ tickets[o].queued_versions \in [RolesOf(o) -> Nat]
    /\ pc \in [Operations -> {"New", "Asleep", "Woken", "Leased", "Done",
                              "ShuttingDown", "MutationBlocked", "DataChanged"}]
    /\ QueuesMatchTickets

\* A normal operation that was queued when a recoverable mutation of one of its
\* roles began never runs on what it knew of the role, whatever else was queued
\* in between; and no other one is turned down for it.
OutrunIsTurnedDown ==
    \A o \in Operations :
        /\ o \in Leased /\ Kind(o) = Normal => o \notin outrun
        /\ pc[o] = "DataChanged" => o \in outrun

\* A role is blocked exactly while a destructive mutation holds it, and for
\* good once one has deleted it: aborting another lease, or completing one that
\* kept the role, never opens a deleted role again.
BlockedUntilAborted ==
    blocked_role_ids =
        deleted \cup UNION {RolesOf(o) : o \in {u \in Leased : Kind(u) = Destructive}}

\* Shutdown turns down every operation that waits, also behind a lease that is
\* never given back; and once the coordinator has said that it is idle, the
\* teardown that follows meets no operation: none is leased or queued again.
ShutdownReleasesWaiters ==
    /\ shutting_down ~> Waiting = {}
    /\ [](idle => Ticketed = {})

-----------------------------------------------------------------------------
\* The leases are a lock over the roles that may turn a request down.
Precedes(p, o) ==
    \E j \in 1..Len(arrivals) : \E i \in 1..(j - 1) : arrivals[i] = p /\ arrivals[j] = o
Before == [o \in Operations |-> IF o \in Waiting THEN {p \in Waiting : Precedes(p, o)} ELSE {}]
Wants == [o \in Operations |-> IF o \in Waiting \cup Leased THEN RolesOf(o) ELSE {}]
Lock == INSTANCE ScopedLock WITH
            Threads <- Operations,
            Scopes <- Roles,
            MayRefuse <- TRUE,
            waiting <- Waiting,
            before <- Before,
            holders <- Leased,
            wants <- Wants

\* Operations on the same role run one at a time in the order in which they
\* asked, and queueing for several roles at once puts no two operations in
\* front of each other.
ServedInOrder == Lock!InOrder

\* An operation that heads its queues is granted or turned down, also while
\* the leases of other roles are kept.
FreeIsServed == Lock!Decided
=============================================================================
