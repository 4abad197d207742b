--------------------------- MODULE OperationActor ---------------------------
(***************************************************************************)
(* The operation actor of rion-core (operation_actor/section_01): every    *)
(* accepted operation runs on a thread of its own, sends desktop effects   *)
(* to the Electron host one after the other, waits for each result, and,   *)
(* when a step fails, runs the compensations of the earlier steps in       *)
(* reverse.  All the threads share one mutex-protected ledger of pending   *)
(* and completed effects; callers cancel operations, deliver results and   *)
(* shut the actor down concurrently.                                       *)
(*                                                                         *)
(* An action is one critical section or one call between two critical      *)
(* sections, so every interleaving of the threads, of the callers and of   *)
(* the clock that the mutex allows is a behaviour of the module.           *)
(***************************************************************************)
EXTENDS Naturals, Sequences, FiniteSets

CONSTANTS
    Operations,         \* identities of the operations (fresh UUIDs)
    Plans,              \* the plans callers may submit
    MaxSteps,           \* length of the longest plan
    PendingCapacity,    \* pending_capacity
    OperationCapacity,  \* operation_capacity
    CompletedCapacity,  \* COMPLETED_EFFECT_CAPACITY
    Replies,            \* what the host may answer: see Reply
    MaxReplies          \* bound: answers of the host to one effect

Policy == {"EventBound", "DeadlineBound"}
Reply == {"Ok", "Rejected", "WrongOperation"}

\* One OperationStep: its completion policy, the policy of its compensation
\* ("None" when the step has no compensation), compensate_on_rejected_result.
Step == [policy : Policy, undo : Policy \cup {"None"}, onReject : BOOLEAN]

ASSUME CapacityAssumption ==
    /\ PendingCapacity \in Nat \ {0}
    /\ OperationCapacity \in Nat \ {0}
    /\ CompletedCapacity \in Nat \ {0}
    /\ MaxSteps \in Nat
    /\ MaxReplies \in Nat
ASSUME PlanAssumption ==
    /\ Plans \subseteq Seq(Step)
    /\ \A p \in Plans : Len(p) <= MaxSteps
    /\ Replies \subseteq Reply

\* A step is executed at most once, and its compensation at most once: these
\* triples stand for the UUID that execute_effect gives to each effect.
EffectId == [op : Operations, step : 1..MaxSteps, mode : {"Forward", "Reverse"}]

Reason == {"OperationCancelled", "DeadlineElapsed", "ActorStopped"}
Notice == [effect : EffectId, reason : Reason]
Class == {"accepted", "duplicate", "late", "unknown", "mismatch"}
Absent == [phase |-> "Absent", reason |-> "None"]
Slot == [phase : {"Absent", "Emitting", "Dispatched"}, reason : Reason \cup {"None"}]
Failure == {"None", "Cancelled", "ShuttingDown", "Backpressure", "Rejected",
            "LateResult", "Timeout", "Internal"}
Pc == {"New", "Spawning", "StepCheck", "Admit", "Emit", "Mark", "Recall",
       "Wait", "Expired", "DeadlineNotice", "Finish", "Leave", "Done"}

VARIABLES
    \* ActorState, under the mutex
    shuttingDown,       \* shutting_down
    operations,         \* keys of ActorState.operations
    cancelled,          \* the AtomicBool each operation shares with its thread
    pending,            \* ActorState.pending; Absent where the map has no key
    completed,          \* ActorState.completed; "None" where it has no key
    completedOrder,     \* completed_order
    \* results on their way to the waiting threads, and the clock
    sending,            \* results taken out of pending and not yet sent
    channel,            \* the oneshot result channel of each effect
    overdue,            \* effects whose deadline has elapsed
    \* what the host has seen
    emitted,            \* effects passed to the effect emitter
    outbox,             \* cancellation records a caller is about to emit
    published,          \* cancellation records emitted, per effect
    reports,            \* how dispatch_results classified each answer
    \* the operation threads: locals of run_operation and execute_effect
    pc, plan,
    at, mode,           \* the current effect: step `at', forward or reverse
    undo,               \* compensations: a stack of steps
    undone, undoFailed, \* compensation_results, compensation_failures
    held,               \* the reason of the record this thread is about to emit
    failure, fence      \* failure, FirstEffectDispatchSignal

ledgerVars == <<shuttingDown, operations, cancelled, pending, completed, completedOrder>>
wireVars == <<sending, channel, overdue>>
hostVars == <<emitted, outbox, published, reports>>
threadVars == <<pc, plan, at, mode, undo, undone, undoFailed, held, failure, fence>>
vars == <<ledgerVars, wireVars, hostVars, threadVars>>

-----------------------------------------------------------------------------
PendingIds == {e \in EffectId : pending[e].phase # "Absent"}
Current(o) == [op |-> o, step |-> at[o], mode |-> mode[o]]
CurrentStep(o) == plan[o][at[o]]
PolicyOf(o) == IF mode[o] = "Forward" THEN CurrentStep(o).policy ELSE CurrentStep(o).undo

Goto(o, label) == pc' = [pc EXCEPT ![o] = label]
Publish(e, reason) == published' = [published EXCEPT ![e] = Append(@, reason)]

\* Mutant: a timed-out effect is remembered as if it had completed.
RememberAsCompleted(e, how) ==
    /\ completedOrder' = Append(completedOrder, e)
    /\ completed' = [completed EXCEPT ![e] = "Completed"]

\* remember_completed: the oldest entry leaves when the ledger is over its capacity.
RememberCompleted(e, how) ==
    LET order == Append(completedOrder, e)
        full == Len(order) > CompletedCapacity
    IN  /\ completedOrder' = IF full THEN Tail(order) ELSE order
        /\ completed' = [x \in EffectId |-> CASE full /\ x = Head(order) -> "None"
                                              [] x = e -> how
                                              [] OTHER -> completed[x]]

\* An effect leaves pending and is remembered.
Take(e, how) ==
    /\ pending' = [pending EXCEPT ![e] = Absent]
    /\ RememberCompleted(e, how)

\* Mutants: every pending effect is marked again; the emitting phase is ignored;
\* a cancellation during the emission is not deferred.
UnmarkedAny(ids) == ids \cap PendingIds
RecordsAny(ids, reason) ==
    {[effect |-> e, reason |-> reason] : e \in {x \in ids : pending[x].reason = "None"} \cap PendingIds}
NeverDeferred(e) == "None"

\* Every pending effect of `ids' without a cancellation reason takes `reason';
\* the ones already handed to the host produce a cancellation record.
Unmarked(ids) == {e \in ids \cap PendingIds : pending[e].reason = "None"}
Mark(ids, reason) ==
    pending' = [e \in EffectId |-> IF e \in Unmarked(ids)
                                   THEN [pending[e] EXCEPT !.reason = reason]
                                   ELSE pending[e]]
Records(ids, reason) ==
    {[effect |-> e, reason |-> reason] :
        e \in {x \in Unmarked(ids) : pending[x].phase = "Dispatched"}}
Deferred(e) == pending[e].reason

\* Mutant: the fence does not resolve on dispatch.
ResolveFailures(o, how) ==
    fence' = [fence EXCEPT ![o] = IF how = "Failed" /\ @ = "Pending" THEN how ELSE @]

\* Only the forward effects carry the first-dispatch signal, until one uses it.
Resolve(o, how) ==
    fence' = [fence EXCEPT ![o] = IF mode[o] = "Forward" /\ @ = "Pending" THEN how ELSE @]

-----------------------------------------------------------------------------
(* run_operation: what follows an effect                                   *)

\* Mutant: the compensations in plan order.
Oldest(stack) == stack[1]

Newest(stack) == stack[Len(stack)]

\* The loop over the compensations, from the last one pushed.
Unwind(o, stack) ==
    IF stack = <<>>
    THEN /\ Goto(o, "Finish")
         /\ undo' = [undo EXCEPT ![o] = <<>>]
         /\ UNCHANGED <<at, mode>>
    ELSE /\ Goto(o, "Admit")
         /\ at' = [at EXCEPT ![o] = Newest(stack)]
         /\ mode' = [mode EXCEPT ![o] = "Reverse"]
         /\ undo' = [undo EXCEPT ![o] = SubSeq(stack, 1, Len(stack) - 1)]

Pushed(o) == IF CurrentStep(o).undo = "None" THEN undo[o] ELSE Append(undo[o], at[o])

\* A forward step succeeded: keep its compensation and take the next step.
Advance(o) ==
    /\ undo' = [undo EXCEPT ![o] = Pushed(o)]
    /\ IF at[o] = Len(plan[o])
       THEN Goto(o, "Finish") /\ UNCHANGED at
       ELSE Goto(o, "StepCheck") /\ at' = [at EXCEPT ![o] = @ + 1]
    /\ UNCHANGED <<mode, undone, undoFailed, failure>>

\* A forward step failed: its own compensation is kept when `retain'.
Fail(o, why, retain) ==
    /\ failure' = [failure EXCEPT ![o] = why]
    /\ Unwind(o, IF retain THEN Pushed(o) ELSE undo[o])
    /\ UNCHANGED <<undone, undoFailed>>

\* A compensation ended: record it and take the next one.
EndUndo(o, ok) ==
    /\ IF ok
       THEN undone' = [undone EXCEPT ![o] = @ \cup {at[o]}] /\ UNCHANGED undoFailed
       ELSE undoFailed' = [undoFailed EXCEPT ![o] = @ \cup {at[o]}] /\ UNCHANGED undone
    /\ Unwind(o, undo[o])
    /\ UNCHANGED failure

\* execute_effect returned Ok(result)
Returned(o, result) ==
    \/ mode[o] = "Forward" /\ result = "Ok" /\ Advance(o)
    \/ /\ mode[o] = "Forward" /\ result # "Ok"
       /\ Fail(o, result, CurrentStep(o).onReject)
    \/ mode[o] = "Reverse" /\ EndUndo(o, result = "Ok")

\* Mutant: the compensation of an indeterminate step is dropped.
ErroredAndForgotten(o, why) ==
    \/ mode[o] = "Forward" /\ Fail(o, why, FALSE)
    \/ mode[o] = "Reverse" /\ EndUndo(o, FALSE)

\* execute_effect returned Err(why): the commit status is indeterminate.
Errored(o, why) ==
    \/ mode[o] = "Forward" /\ Fail(o, why, TRUE)
    \/ mode[o] = "Reverse" /\ EndUndo(o, FALSE)

-----------------------------------------------------------------------------
(* start_with_kind                                                         *)

Start(o, p) ==
    /\ pc[o] = "New"
    /\ ~shuttingDown
    /\ Cardinality(operations) < OperationCapacity
    /\ operations' = operations \cup {o}
    /\ plan' = [plan EXCEPT ![o] = p]
    /\ Goto(o, "Spawning")
    /\ UNCHANGED <<shuttingDown, cancelled, pending, completed, completedOrder>>
    /\ UNCHANGED <<wireVars, hostVars, at, mode, undo, undone, undoFailed, held, failure, fence>>

\* The thread starts and its tokio runtime is built.
Spawn(o) ==
    /\ pc[o] = "Spawning"
    /\ Goto(o, IF plan[o] = <<>> THEN "Finish" ELSE "StepCheck")
    /\ UNCHANGED <<ledgerVars, wireVars, hostVars>>
    /\ UNCHANGED <<plan, at, mode, undo, undone, undoFailed, held, failure, fence>>

\* The thread starts and its tokio runtime cannot be built.
RuntimeFails(o) ==
    /\ pc[o] = "Spawning"
    /\ Goto(o, "Finish")
    /\ failure' = [failure EXCEPT ![o] = "Internal"]
    /\ fence' = [fence EXCEPT ![o] = "Failed"]
    /\ UNCHANGED <<ledgerVars, wireVars, hostVars>>
    /\ UNCHANGED <<plan, at, mode, undo, undone, undoFailed, held>>

\* The thread cannot be spawned: start returns an error.
SpawnFails(o) ==
    /\ pc[o] = "Spawning"
    /\ Goto(o, "Done")
    /\ operations' = operations \ {o}
    /\ failure' = [failure EXCEPT ![o] = "Internal"]
    /\ fence' = [fence EXCEPT ![o] = "Failed"]
    /\ UNCHANGED <<shuttingDown, cancelled, pending, completed, completedOrder>>
    /\ UNCHANGED <<wireVars, hostVars, plan, at, mode, undo, undone, undoFailed, held>>

-----------------------------------------------------------------------------
(* The operation thread: the loop of run_operation and execute_effect      *)

\* The cancellation check at the top of the loop, outside the mutex.
CheckCancelled(o) ==
    /\ pc[o] = "StepCheck"
    /\ IF cancelled[o]
       THEN Fail(o, "Cancelled", FALSE)
       ELSE /\ Goto(o, "Admit")
            /\ UNCHANGED <<at, mode, undo, undone, undoFailed, failure>>
    /\ UNCHANGED <<ledgerVars, wireVars, hostVars, plan, held, fence>>

Refusal(o) ==
    CASE shuttingDown -> "ShuttingDown"
      [] o \notin operations \/ cancelled[o] -> "Cancelled"
      [] Cardinality(PendingIds) >= PendingCapacity -> "Backpressure"
      [] OTHER -> "None"

\* The admission of execute_effect, accepted: the effect is pending.
Admit(o) ==
    /\ pc[o] = "Admit"
    /\ Refusal(o) = "None"
    /\ pending' = [pending EXCEPT ![Current(o)] = [phase |-> "Emitting", reason |-> "None"]]
    /\ Goto(o, "Emit")
    /\ UNCHANGED <<shuttingDown, operations, cancelled, completed, completedOrder>>
    /\ UNCHANGED <<wireVars, hostVars, plan, at, mode, undo, undone, undoFailed, held, failure, fence>>

\* The admission refused: nothing was emitted, the fence takes the error.
Refuse(o) ==
    /\ pc[o] = "Admit"
    /\ Refusal(o) # "None"
    /\ Errored(o, Refusal(o))
    /\ Resolve(o, "Failed")
    /\ UNCHANGED <<ledgerVars, wireVars, hostVars, plan, held>>

\* The effect emitter runs, outside the mutex.
Emit(o) ==
    /\ pc[o] = "Emit"
    /\ emitted' = emitted \cup {Current(o)}
    /\ Goto(o, "Mark")
    /\ UNCHANGED <<ledgerVars, wireVars, outbox, published, reports>>
    /\ UNCHANGED <<plan, at, mode, undo, undone, undoFailed, held, failure, fence>>

Signal(o) == fence' = IF mode[o] = "Forward" /\ fence[o] = "Pending"
                      THEN [fence EXCEPT ![o] = "Ok"] ELSE fence

\* The effect is Dispatched, unless its result already took it out of pending;
\* a cancellation that came while it was being emitted was deferred to now.
MarkDispatched(o) ==
    /\ pc[o] = "Mark"
    /\ LET e == Current(o) IN
       /\ pending' = IF e \in PendingIds
                     THEN [pending EXCEPT ![e].phase = "Dispatched"] ELSE pending
       /\ held' = [held EXCEPT ![o] = Deferred(e)]
    /\ Goto(o, "Recall")
    /\ UNCHANGED <<shuttingDown, operations, cancelled, completed, completedOrder>>
    /\ UNCHANGED <<wireVars, hostVars, plan, at, mode, undo, undone, undoFailed, failure, fence>>

\* The deferred cancellation record, if any, then the first-dispatch signal.
Recall(o) ==
    /\ pc[o] = "Recall"
    /\ IF held[o] = "None" THEN UNCHANGED published ELSE Publish(Current(o), held[o])
    /\ held' = [held EXCEPT ![o] = "None"]
    /\ Resolve(o, "Ok")
    /\ Goto(o, "Wait")
    /\ UNCHANGED <<ledgerVars, wireVars, emitted, outbox, reports>>
    /\ UNCHANGED <<plan, at, mode, undo, undone, undoFailed, failure>>

\* The result channel has a value.  tokio polls the channel before the timer.
Receive(o) ==
    /\ pc[o] = "Wait"
    /\ channel[Current(o)] # "Empty"
    /\ Returned(o, channel[Current(o)])
    /\ UNCHANGED <<ledgerVars, wireVars, hostVars, plan, held, fence>>

\* The timer of a deadline-bound effect fires while the channel is empty; a
\* result sent from now on finds no receiver.
TimerFires(o) ==
    /\ pc[o] = "Wait"
    /\ PolicyOf(o) = "DeadlineBound"
    /\ Current(o) \in overdue
    /\ channel[Current(o)] = "Empty"
    /\ Goto(o, "Expired")
    /\ UNCHANGED <<ledgerVars, wireVars, hostVars>>
    /\ UNCHANGED <<plan, at, mode, undo, undone, undoFailed, held, failure, fence>>

\* Under the mutex: the effect, if still pending, is removed as timed out, and
\* a record is due unless an earlier cancellation already produced one.
Expire(o) ==
    /\ pc[o] = "Expired"
    /\ LET e == Current(o) IN
       IF e \in PendingIds
       THEN /\ Take(e, "TimedOut")
            /\ held' = [held EXCEPT ![o] = IF pending[e].reason = "None"
                                           THEN "DeadlineElapsed" ELSE "None"]
       ELSE UNCHANGED <<pending, completed, completedOrder, held>>
    /\ Goto(o, "DeadlineNotice")
    /\ UNCHANGED <<shuttingDown, operations, cancelled>>
    /\ UNCHANGED <<wireVars, hostVars, plan, at, mode, undo, undone, undoFailed, failure, fence>>

NotifyDeadline(o) ==
    /\ pc[o] = "DeadlineNotice"
    /\ IF held[o] = "None" THEN UNCHANGED published ELSE Publish(Current(o), held[o])
    /\ held' = [held EXCEPT ![o] = "None"]
    /\ Errored(o, "Timeout")
    /\ UNCHANGED <<ledgerVars, wireVars, emitted, outbox, reports, plan, fence>>

\* The end of run_operation: a fence still pending fails.
Finish(o) ==
    /\ pc[o] = "Finish"
    /\ fence' = [fence EXCEPT ![o] = IF @ = "Pending" THEN "Failed" ELSE @]
    /\ Goto(o, "Leave")
    /\ UNCHANGED <<ledgerVars, wireVars, hostVars>>
    /\ UNCHANGED <<plan, at, mode, undo, undone, undoFailed, held, failure>>

\* The thread leaves the operations map, then sends the outcome.
Leave(o) ==
    /\ pc[o] = "Leave"
    /\ operations' = operations \ {o}
    /\ Goto(o, "Done")
    /\ UNCHANGED <<shuttingDown, cancelled, pending, completed, completedOrder>>
    /\ UNCHANGED <<wireVars, hostVars, plan, at, mode, undo, undone, undoFailed, held, failure, fence>>

-----------------------------------------------------------------------------
(* The callers: cancel, shutdown, dispatch_results, and the clock          *)

Cancel(o) ==
    /\ o \in operations
    /\ cancelled' = [cancelled EXCEPT ![o] = TRUE]
    /\ LET mine == {e \in EffectId : e.op = o} IN
       /\ Mark(mine, "OperationCancelled")
       /\ outbox' = outbox \cup Records(mine, "OperationCancelled")
    /\ UNCHANGED <<shuttingDown, operations, completed, completedOrder>>
    /\ UNCHANGED <<wireVars, emitted, published, reports, threadVars>>

Shutdown ==
    /\ ~shuttingDown
    /\ shuttingDown' = TRUE
    /\ cancelled' = [o \in Operations |-> cancelled[o] \/ o \in operations]
    /\ operations' = {}
    /\ Mark(EffectId, "ActorStopped")
    /\ outbox' = outbox \cup Records(EffectId, "ActorStopped")
    /\ UNCHANGED <<completed, completedOrder>>
    /\ UNCHANGED <<wireVars, emitted, published, reports, threadVars>>

\* The caller of cancel or shutdown emits its records after the unlock.
EmitCancellation(n) ==
    /\ n \in outbox
    /\ outbox' = outbox \ {n}
    /\ Publish(n.effect, n.reason)
    /\ UNCHANGED <<ledgerVars, wireVars, emitted, reports, threadVars>>

Classified(e, class) == reports' = [reports EXCEPT ![e] = Append(@, class)]

\* One result of dispatch_results, up to the unlock.
DispatchUnmatched(e, reply) ==
    /\ \/ e \notin PendingIds /\ Classified(e, CASE completed[e] = "TimedOut" -> "late"
                                               [] completed[e] = "Completed" -> "duplicate"
                                               [] completed[e] = "None" -> "unknown")
       \/ e \in PendingIds /\ reply = "WrongOperation" /\ Classified(e, "mismatch")
    /\ UNCHANGED <<ledgerVars, sending>>

DispatchLate(e, reply) ==
    /\ e \in PendingIds /\ reply # "WrongOperation" /\ e \in overdue
    /\ Take(e, "TimedOut")
    /\ Classified(e, "late")
    /\ sending' = sending \cup {[effect |-> e, result |-> "LateResult"]}
    /\ UNCHANGED <<shuttingDown, operations, cancelled>>

DispatchAccepted(e, reply) ==
    /\ e \in PendingIds /\ reply # "WrongOperation" /\ e \notin overdue
    /\ Take(e, "Completed")
    /\ Classified(e, "accepted")
    /\ sending' = sending \cup {[effect |-> e, result |-> reply]}
    /\ UNCHANGED <<shuttingDown, operations, cancelled>>

DispatchResult(e, reply) ==
    /\ e \in emitted
    /\ Len(reports[e]) < MaxReplies
    /\ DispatchUnmatched(e, reply) \/ DispatchLate(e, reply) \/ DispatchAccepted(e, reply)
    /\ UNCHANGED <<channel, overdue, emitted, outbox, published, threadVars>>

\* pending.result.send, after the unlock: lost when the thread gave up waiting.
ListeningOnceWaiting(e) == Current(e.op) = e /\ pc[e.op] = "Wait"   \* mutant
Listening(e) == Current(e.op) = e /\ pc[e.op] \in {"Mark", "Recall", "Wait"}
SendResult(s) ==
    /\ s \in sending
    /\ sending' = sending \ {s}
    /\ channel' = IF Listening(s.effect)
                  THEN [channel EXCEPT ![s.effect] = s.result] ELSE channel
    /\ UNCHANGED <<ledgerVars, overdue, hostVars, threadVars>>

\* The deadline is fixed before admission and the timer starts after the
\* emission, so the deadline elapses first.
DeadlineElapses(o) ==
    /\ pc[o] \in {"Emit", "Mark", "Recall", "Wait"}
    /\ PolicyOf(o) = "DeadlineBound"
    /\ Current(o) \notin overdue
    /\ overdue' = overdue \cup {Current(o)}
    /\ UNCHANGED <<ledgerVars, sending, channel, hostVars, threadVars>>

-----------------------------------------------------------------------------
Init ==
    /\ shuttingDown = FALSE
    /\ operations = {}
    /\ cancelled = [o \in Operations |-> FALSE]
    /\ pending = [e \in EffectId |-> Absent]
    /\ completed = [e \in EffectId |-> "None"]
    /\ completedOrder = <<>>
    /\ sending = {}
    /\ channel = [e \in EffectId |-> "Empty"]
    /\ overdue = {}
    /\ emitted = {}
    /\ outbox = {}
    /\ published = [e \in EffectId |-> <<>>]
    /\ reports = [e \in EffectId |-> <<>>]
    /\ pc = [o \in Operations |-> "New"]
    /\ plan = [o \in Operations |-> <<>>]
    /\ at = [o \in Operations |-> 1]
    /\ mode = [o \in Operations |-> "Forward"]
    /\ undo = [o \in Operations |-> <<>>]
    /\ undone = [o \in Operations |-> {}]
    /\ undoFailed = [o \in Operations |-> {}]
    /\ held = [o \in Operations |-> "None"]
    /\ failure = [o \in Operations |-> "None"]
    /\ fence = [o \in Operations |-> "Pending"]

\* What an operation thread does on its own.
Thread(o) ==
    \/ Spawn(o) \/ RuntimeFails(o) \/ SpawnFails(o)
    \/ CheckCancelled(o) \/ Admit(o) \/ Refuse(o) \/ Emit(o)
    \/ MarkDispatched(o) \/ Recall(o) \/ Receive(o)
    \/ TimerFires(o) \/ Expire(o) \/ NotifyDeadline(o)
    \/ Finish(o) \/ Leave(o)

Next ==
    \/ \E o \in Operations, p \in Plans : Start(o, p)
    \/ \E o \in Operations : Thread(o) \/ Cancel(o) \/ DeadlineElapses(o)
    \/ Shutdown
    \/ \E n \in outbox : EmitCancellation(n)
    \/ \E e \in emitted, r \in Replies : DispatchResult(e, r)
    \/ \E s \in sending : SendResult(s)

Spec == Init /\ [][Next]_vars

\* Threads are scheduled, timers fire, and a caller that left the mutex goes on.
LocalFairness ==
    /\ \A o \in Operations : WF_vars(Thread(o)) /\ WF_vars(DeadlineElapses(o))
    /\ WF_vars(\E n \in outbox : EmitCancellation(n))
    /\ WF_vars(\E s \in sending : SendResult(s))

\* The Electron coordinator acknowledges every effect it was given.
HostFairness ==
    \A e \in EffectId :
        WF_vars(/\ \A i \in DOMAIN reports[e] : reports[e][i] = "mismatch"
                /\ \E r \in Replies \ {"WrongOperation"} : DispatchResult(e, r))

LocalSpec == Spec /\ LocalFairness

-----------------------------------------------------------------------------
(* Properties                                                              *)

LedgerType ==
    /\ shuttingDown \in BOOLEAN
    /\ operations \subseteq Operations
    /\ cancelled \in [Operations -> BOOLEAN]
    /\ pending \in [EffectId -> Slot]
    /\ completed \in [EffectId -> {"None", "Completed", "TimedOut"}]
    /\ completedOrder \in Seq(EffectId)
WireType ==
    /\ sending \subseteq [effect : EffectId, result : {"Ok", "Rejected", "LateResult"}]
    /\ channel \in [EffectId -> {"Empty", "Ok", "Rejected", "LateResult"}]
    /\ overdue \subseteq EffectId
HostType ==
    /\ emitted \subseteq EffectId
    /\ outbox \subseteq Notice
    /\ published \in [EffectId -> Seq(Reason)]
    /\ reports \in [EffectId -> Seq(Class)]
ThreadType ==
    /\ pc \in [Operations -> Pc]
    /\ at \in [Operations -> Nat \ {0}]
    /\ mode \in [Operations -> {"Forward", "Reverse"}]
    /\ undo \in [Operations -> Seq(Nat \ {0})]
    /\ undone \in [Operations -> SUBSET (1..MaxSteps)]
    /\ undoFailed \in [Operations -> SUBSET (1..MaxSteps)]
    /\ failure \in [Operations -> Failure]
CallType ==
    /\ plan \in [Operations -> Plans \cup {<<>>}]
    /\ held \in [Operations -> Reason \cup {"None"}]
    /\ fence \in [Operations -> {"Pending", "Ok", "Failed"}]

\* Every variable has its type (ActorState, PendingEffect, OperationOutcome).
TypeOK == LedgerType /\ WireType /\ HostType /\ ThreadType /\ CallType

\* The cancellation record of an effect: published, about to be published by
\* the caller that cancelled it, or about to be published by its own thread.
Announced(e) == published[e] # <<>>
Queued(e) == \E n \in outbox : n.effect = e
HeldFor(e) == held[e.op] # "None" /\ Current(e.op) = e
Notified(e) == Announced(e) \/ Queued(e) \/ HeldFor(e)

\* However a cancel, a shutdown, a deferred cancellation and a deadline race,
\* the host is told at most once that an effect is cancelled.
AtMostOneNotice ==
    \A e \in EffectId :
        /\ Len(published[e]) <= 1
        /\ \A n, m \in outbox : n.effect = e /\ m.effect = e => n = m
        /\ ~(Announced(e) /\ Queued(e))
        /\ ~(HeldFor(e) /\ (Announced(e) \/ Queued(e)))

\* A cancellation record never overtakes the request it cancels: the host
\* forgets a record whose effect it does not know (the Emitting phase).
NoticeFollowsRequest == \A e \in EffectId : Notified(e) => e \in emitted

\* A cancellation is told once, and after the request it recalls.
OneNoticeAfterRequest == AtMostOneNotice /\ NoticeFollowsRequest

\* An effect the host holds on behalf of a cancelled or stopped operation is
\* recalled: its record is published or on its way, or, before the emitter
\* returned, remembered for the thread to publish.
CancelReachesHost ==
    \A e \in PendingIds : cancelled[e.op] =>
        IF pending[e].phase = "Dispatched" THEN Notified(e)
                                           ELSE pending[e].reason # "None"

\* The host was told, or is about to be told, that the deadline of e elapsed.
DeadlineRecorded(e) ==
    \/ \E i \in DOMAIN published[e] : published[e][i] = "DeadlineElapsed"
    \/ HeldFor(e) /\ held[e.op] = "DeadlineElapsed"

\* The classifications of the answers to one effect agree with each other and
\* with the deadline: one at most is accepted, and none if the host is told that
\* the deadline elapsed; duplicates come only after an accepted one, and
\* late answers never follow it.
AnswersClassifiedOnce ==
    \A e \in EffectId :
        /\ \A j \in DOMAIN reports[e] :
              LET earlier == {reports[e][i] : i \in 1..(j - 1)} IN
              /\ reports[e][j] = "accepted" => earlier \subseteq {"mismatch"}
              /\ reports[e][j] = "duplicate" => "accepted" \in earlier
              /\ reports[e][j] = "late" => earlier \subseteq {"mismatch", "late"}
        /\ DeadlineRecorded(e) =>
              e \notin PendingIds /\ \A i \in DOMAIN reports[e] : reports[e][i] # "accepted"

\* The forward effect of step i may have changed the host and has a compensation:
\* the result was Ok or never came, or rejected results are compensated too.
Forward(o, i) == [op |-> o, step |-> i, mode |-> "Forward"]
Reverse(o, i) == [op |-> o, step |-> i, mode |-> "Reverse"]
NeedsUndo(o, i) ==
    /\ Forward(o, i) \in emitted
    /\ plan[o][i].undo # "None"
    /\ plan[o][i].onReject \/ channel[Forward(o, i)] \notin {"Rejected", "LateResult"}
Settled(o, i) == i \in undone[o] \cup undoFailed[o]

\* An operation that fails leaves no step behind: each step that may have
\* taken effect was compensated, or is reported as a compensation failure.
CompensationComplete ==
    \A o \in Operations : pc[o] = "Done" /\ failure[o] # "None" =>
        \A i \in DOMAIN plan[o] : NeedsUndo(o, i) => Settled(o, i)

\* Compensations run in reverse: when the compensation of a step reaches the
\* host, those of all the later steps have ended.
UndoInReverse ==
    \A o \in Operations : \A i, j \in DOMAIN plan[o] :
        Reverse(o, i) \in emitted /\ i < j /\ NeedsUndo(o, j) => Settled(o, j)

\* Every effect of the plan, and every compensation, has a deadline.
HasDeadlines(p) ==
    \A i \in DOMAIN p : p[i].policy = "DeadlineBound" /\ p[i].undo # "EventBound"

\* Every operation that starts ends, even when it is cancelled or the actor shuts
\* down meanwhile: if the host answers what it is sent, or, whatever the host
\* does, if all the effects have deadlines.
OperationsEnd ==
    /\ \A o \in Operations : pc[o] = "Spawning" /\ HasDeadlines(plan[o]) ~> pc[o] = "Done"
    /\ HostFairness => \A o \in Operations : pc[o] = "Spawning" ~> pc[o] = "Done"

\* The caller waiting on the first-dispatch fence is released, whether or not
\* the host ever answers.
FenceResolves ==
    \A o \in Operations : pc[o] = "Spawning" ~> fence[o] # "Pending"

\* Stated by the comment in run_operation and by the test
\* compensates_an_indeterminate_timeout_even_when_rejection_is_self_cleaning:
\* a step whose result missed its deadline is compensated even when rejected
\* results are not.
TimeoutKeepsCompensation ==
    \A o \in Operations : pc[o] = "Done" => \A i \in DOMAIN plan[o] :
        /\ completed[Forward(o, i)] = "TimedOut"
        /\ plan[o][i].undo # "None"
        => Settled(o, i)

=============================================================================
