------------------------- MODULE EffectCoordinator -------------------------
(***************************************************************************)
(* coreEffectCoordinator.ts: the part of the Electron main process that    *)
(* runs the effects of the Core.  An effect waits for the effects that     *)
(* were queued before it on one of its lanes, is executed by the host, may *)
(* go on as a continuation that waits for a native event off its lanes,    *)
(* and is acknowledged to the Core.  The code runs on one JavaScript       *)
(* thread: an action is what happens between two awaits, in a callback or  *)
(* in a call from outside.                                                 *)
(***************************************************************************)
EXTENDS Naturals, FiniteSets, Sequences, SequencesExt, Functions

CONSTANTS
    Requests,       \* what the Core may send: an effect with its payload
    EffectOf,       \* [Requests -> effect ids]: two payloads may share an id
    ScopesOf,       \* mutationScopes: [Requests -> nonempty sets of scopes]
    Destructive,    \* isDestructiveEffect
    Projecting,     \* the effects that the window fence retains
    Receipts,       \* MAX_RETAINED_EFFECT_RECEIPTS
    DestructiveReceipts,    \* MAX_RETAINED_DESTRUCTIVE_EFFECT_RECEIPTS
    MaxDeliveries,  \* bound: deliveries of requests, over all coordinators
    Bounds          \* bounds of what happens together: the requests, how many
                    \* deliveries of them and coordinators of the process, and
                    \* the windows that a reader asks for

ASSUME RequestAssumption ==
    /\ Destructive \subseteq Requests
    /\ Projecting \subseteq Requests
    /\ \A r \in Requests : ScopesOf[r] # {}

ASSUME BoundAssumption ==
    /\ Receipts \in Nat
    /\ DestructiveReceipts \in Nat
    /\ MaxDeliveries \in Nat
    /\ \A b \in Bounds :
          /\ b.requests \subseteq Requests
          /\ b.deliveries \in 0..MaxDeliveries
          /\ b.coordinators \in Nat

VARIABLES
    state,      \* #state: "idle", "open", "draining" or "disposed"
    coordinator,\* how many coordinators the process has had
    tasks,      \* every delivery, in order: what became of it
    records,    \* #recordsByEffectId: effect id -> the task that runs it
    order,      \* #effectRecordOrder
    lanes,      \* #lanes: scope -> the last task queued on it
    receipts,   \* the destructive ledger of the process: effect id -> task
    exhausted,  \* its destructiveCapacityExhausted
    drain,      \* #drainTasks: its stage, and the tasks that stage awaits
    routed,     \* #eventStreamFailureRouted
    reader      \* a caller of settleWindowProjection

vars == <<state, coordinator, tasks, records, order, lanes, receipts, exhausted,
          drain, routed, reader>>

Effects == {EffectOf[r] : r \in Requests}
Scopes == UNION {ScopesOf[r] : r \in Requests} \cup {"app"}
\* A cancellation by the Core, by its shutdown or by dispose, and the loss of events.
Reasons == {"Stopped", "StreamFailure"}
Answers == {"Ok", "Failed", "StreamFailed", "Reused", "Capacity"}

\* A task is a delivery.  "First" runs the effect, "Replay" repeats the answer
\* of the task `of', "Refusal" answers at once.
Task == [request : Requests, kind : {"First", "Replay", "Refusal"},
         of : 0..MaxDeliveries, after : SUBSET (1..MaxDeliveries),
         phase : {"Queued", "Executing", "Continuing", "Awaiting", "Acknowledging", "Done"},
         continued : BOOLEAN, reason : Reasons \cup {"None"},
         answer : Answers \cup {"None"}, projection : {"None", "Pending", "Settled", "Failed"}]

NoReader == [window |-> "none", awaits |-> {}, upTo |-> 0]

Fresh(n) ==
    /\ state = "idle"
    /\ coordinator = n
    /\ records = <<>>
    /\ order = <<>>
    /\ lanes = <<>>
    /\ drain = [stage |-> "None", awaits |-> {}]
    /\ routed = FALSE
    /\ reader = NoReader

Init ==
    /\ Fresh(1)
    /\ tasks = <<>>
    /\ receipts = <<>>
    /\ exhausted = FALSE

\* There is a bound that admits this much.
Within(requests, deliveries, coordinators, windows) ==
    \E b \in Bounds :
        /\ requests \subseteq b.requests
        /\ deliveries <= b.deliveries
        /\ coordinators <= b.coordinators
        /\ windows \subseteq b.windows
Delivered == {tasks[t].request : t \in DOMAIN tasks}
Asked == {reader.window} \ {NoReader.window}

-----------------------------------------------------------------------------
Settled(t) == tasks[t].answer # "None"

\* A task holds its lanes until executeFirst returns: after the
\* acknowledgement, or when the host has returned a continuation.
OnLane(t) ==
    /\ tasks[t].kind = "First"
    /\ tasks[t].phase \in {"Queued", "Executing", "Acknowledging"}
    /\ ~tasks[t].continued

\* A terminal task: a continuation, a replay or a refusal under way.
OffLane(t) == tasks[t].phase # "Done" /\ (tasks[t].kind # "First" \/ tasks[t].continued)

\* cancellationError
ErrorOf(reason) == IF reason = "StreamFailure" THEN "StreamFailed" ELSE "Failed"

\* pruneEffectRecords: drop the oldest records beyond the bound, but stop at
\* one that has not settled.  `done' are the tasks that have.
Pruned(recs, ids, done) ==
    LET over(n) == Len(ids) - n > Receipts
        stops == {n \in 0..Len(ids) : ~over(n) \/ recs[ids[n + 1]] \notin done}
        n == CHOOSE m \in stops : \A k \in stops : m <= k
    IN  [records |-> [e \in {ids[i] : i \in n + 1..Len(ids)} |-> recs[e]],
         order |-> SubSeq(ids, n + 1, Len(ids))]

\* settleRecord up to the call of dispatchCoreEffectResults; task is the task
\* as the caller leaves it.
Settle(t, task, answer) ==
    LET kept == Pruned(records, order, {t} \cup {u \in DOMAIN tasks : Settled(u)}) IN
    /\ tasks' = [tasks EXCEPT ![t] =
                    [task EXCEPT !.phase = "Acknowledging", !.answer = answer]]
    /\ records' = kept.records
    /\ order' = kept.order

\* release: a lane whose last task has ended goes.
Without(t) == Restrict(lanes, {k \in DOMAIN lanes : lanes[k] # t})

\* start
Start ==
    /\ state = "idle"
    /\ state' = "open"
    /\ UNCHANGED <<coordinator, tasks, records, order, lanes, receipts, exhausted,
                   drain, routed, reader>>

-----------------------------------------------------------------------------
(* enqueue *)
NewTask(r, kind, of, after) ==
    [request |-> r, kind |-> kind, of |-> of, after |-> after,
     phase |-> CASE kind = "First" -> "Queued" [] kind = "Replay" -> "Awaiting"
               [] OTHER -> "Acknowledging",
     continued |-> FALSE, reason |-> "None", answer |-> "None",
     projection |-> IF kind = "First" /\ r \in Projecting THEN "Pending" ELSE "None"]

\* Mutant: an effect waits for its own lanes only, not for the "app" lane.
OwnTails(S) ==
    {lanes[k] : k \in DOMAIN lanes \cap (IF "app" \in S THEN Scopes ELSE S)}

\* enqueueTask: the tasks it waits for.  An effect on "app" waits for every
\* lane, any other one for its own lanes and for "app".
Predecessors(S) ==
    {lanes[k] : k \in DOMAIN lanes \cap (IF "app" \in S THEN Scopes ELSE S \cup {"app"})}

\* Mutant: the records of the coordinator come without the process's receipts.
RecordedOnly(e) == IF e \in DOMAIN records THEN records[e] ELSE 0

\* The task that answers for an effect id already, or 0.
Existing(e) ==
    CASE e \in DOMAIN receipts -> receipts[e]
      [] e \notin DOMAIN receipts /\ e \in DOMAIN records -> records[e]
      [] OTHER -> 0

Deliver(r) ==
    LET e == EffectOf[r]
        new == Len(tasks) + 1
        existing == Existing(e)
        destructive == r \in Destructive
        full == exhausted \/ Cardinality(DOMAIN receipts) >= DestructiveReceipts
    IN
    /\ state = "open"
    /\ Within(Delivered \cup {r}, new, coordinator, Asked)
    /\ UNCHANGED <<state, coordinator, drain, routed, reader>>
    /\ \/ /\ existing # 0
          /\ tasks' = Append(tasks,
                IF tasks[existing].request = r THEN NewTask(r, "Replay", existing, {})
                ELSE [NewTask(r, "Refusal", 0, {}) EXCEPT !.answer = "Reused"])
          /\ UNCHANGED <<records, order, lanes, receipts, exhausted>>
       \/ /\ existing = 0
          /\ destructive /\ full
          /\ exhausted' = TRUE
          /\ tasks' = Append(tasks, [NewTask(r, "Refusal", 0, {}) EXCEPT !.answer = "Capacity"])
          /\ UNCHANGED <<records, order, lanes, receipts>>
       \/ /\ existing = 0
          /\ ~(destructive /\ full)
          /\ receipts' = IF destructive
                         THEN [f \in DOMAIN receipts \cup {e} |-> IF f = e THEN new ELSE receipts[f]]
                         ELSE receipts
          /\ records' = [f \in DOMAIN records \cup {e} |-> IF f = e THEN new ELSE records[f]]
          /\ order' = Append(order, e)
          /\ lanes' = [k \in DOMAIN lanes \cup ScopesOf[r] |->
                          IF k \in ScopesOf[r] THEN new ELSE lanes[k]]
          /\ tasks' = Append(tasks, NewTask(r, "First", 0, Predecessors(ScopesOf[r])))
          /\ UNCHANGED exhausted

-----------------------------------------------------------------------------
(* executeFirst *)

\* Its predecessors have left their lanes.  An effect that was cancelled while
\* it waited is answered without being executed.
Begin(t) ==
    /\ tasks[t].phase = "Queued"
    /\ \A u \in tasks[t].after : ~OnLane(u)
    /\ IF tasks[t].reason = "None"
       THEN /\ tasks' = [tasks EXCEPT ![t] = [@ EXCEPT !.phase = "Executing", !.after = {}]]
            /\ UNCHANGED <<records, order>>
       ELSE Settle(t, [tasks[t] EXCEPT !.after = {}], ErrorOf(tasks[t].reason))
    /\ UNCHANGED <<state, coordinator, lanes, receipts, exhausted, drain,
                   routed, reader>>

\* execute returns a value or throws.  A cancellation that came meanwhile wins.
ExecuteEnds(t, answer) ==
    /\ tasks[t].phase = "Executing"
    /\ Settle(t, tasks[t], IF tasks[t].reason = "None" THEN answer ELSE ErrorOf(tasks[t].reason))
    /\ UNCHANGED <<state, coordinator, lanes, receipts, exhausted, drain,
                   routed, reader>>

\* Mutant: only a cancellation that is known already reaches the continuation.
KnownReason(t) == tasks[t].reason

\* The reason for which a continuation is cancelled as soon as it is returned.
\* The first reason stays; a coordinator that is not open any more adds its own.
ReasonOnReturn(t) ==
    IF tasks[t].reason = "None" /\ state # "open" THEN "Stopped" ELSE tasks[t].reason

\* execute returns a continuation, which waits for its native event off the lanes.
ExecuteContinues(t) ==
    LET reason == ReasonOnReturn(t) IN
    /\ tasks[t].phase = "Executing"
    /\ tasks' = [tasks EXCEPT ![t] = [@ EXCEPT !.phase = "Continuing", !.continued = TRUE,
                                               !.reason = reason]]
    /\ lanes' = Without(t)
    /\ UNCHANGED <<state, coordinator, records, order, receipts, exhausted, drain,
                   routed, reader>>

\* Mutant: the value of a continuation stands whatever cancelled it.
ReturnedAnswer(t, answer) == answer

\* settleContinuation: the value of a continuation stands even if it was
\* cancelled, unless the reason is the failure of the event stream.
ContinuationAnswer(t, answer) ==
    IF tasks[t].reason = "StreamFailure" THEN "StreamFailed" ELSE answer

\* The native event arrived, the host gave up, or the call of cancel threw, which
\* rejects cancellationFailureSignal.
ContinuationEnds(t, answer) ==
    /\ tasks[t].phase = "Continuing"
    /\ Settle(t, tasks[t], ContinuationAnswer(t, answer))
    /\ UNCHANGED <<state, coordinator, lanes, receipts, exhausted, drain,
                   routed, reader>>

\* A task that repeats an answer has it.
Replay(t) ==
    /\ tasks[t].phase = "Awaiting"
    /\ Settled(tasks[t].of)
    /\ tasks' = [tasks EXCEPT ![t] = [@ EXCEPT !.phase = "Acknowledging",
                                               !.answer = tasks[tasks[t].of].answer]]
    /\ UNCHANGED <<state, coordinator, records, order, lanes, receipts, exhausted, drain,
                   routed, reader>>

\* The task settles a projection.
Projects(t) == tasks[t].kind = "First" /\ tasks[t].request \in Projecting

\* acknowledge ends: Core has classified the answer and afterDispatch has
\* returned, or one of them failed (not ok).  Only then is the projection settled.
Acknowledged(t, ok) ==
    /\ tasks[t].phase = "Acknowledging"
    /\ ok \/ (Projects(t) /\ tasks[t].answer = "Ok")
    /\ tasks' = [tasks EXCEPT ![t] =
          [@ EXCEPT !.phase = "Done", !.continued = FALSE, !.reason = "None",
                    !.projection = CASE ~Projects(t) -> "None"
                                     [] Projects(t) -> IF ok /\ tasks[t].answer = "Ok"
                                                       THEN "Settled" ELSE "Failed"]]
    /\ lanes' = IF OnLane(t) THEN Without(t) ELSE lanes
    /\ UNCHANGED <<state, coordinator, records, order, receipts, exhausted, drain,
                   routed, reader>>

-----------------------------------------------------------------------------
(* Cancellation and the end *)

\* cancelRecord for each of the effects `which': a settled one, and one that has a
\* reason already, are left alone.  A continuation is told at once: from now on
\* its host is expected to end it.
CancelAll(which, reason) ==
    LET hit == {records[e] : e \in which \cap DOMAIN records}
        new == {t \in hit : ~Settled(t) /\ tasks[t].reason = "None"}
    IN  tasks' = [t \in DOMAIN tasks |->
                     IF t \in new THEN [tasks[t] EXCEPT !.reason = reason] ELSE tasks[t]]

\* coreEffectCancellations, for one effect; a record of another operation is no
\* match and nothing happens.
Cancel(e) ==
    /\ state = "open"
    /\ e \in DOMAIN records
    /\ CancelAll({e}, "Stopped")
    /\ UNCHANGED <<state, coordinator, records, order, lanes, receipts, exhausted, drain,
                   routed, reader>>

\* The Core's shutdown event.
CoreShutdown ==
    /\ state = "open"
    /\ CancelAll(Effects, "Stopped")
    /\ UNCHANGED <<state, coordinator, records, order, lanes, receipts, exhausted, drain,
                   routed, reader>>

\* Mutant: a continuation does not register itself.
AnswersOnly == {t \in DOMAIN tasks : OffLane(t) /\ tasks[t].kind # "First"}

\* #terminalTasks
Terminals == {t \in DOMAIN tasks : OffLane(t)}

\* What drainTasks awaits first.
LaneTails == Range(lanes)

\* beginDrain.  When the actor stops, an effect that is queued or executing
\* may still run; only a continuation or a destructive effect is cancelled.
BeginDrain(reason, every) ==
    LET cancelled(e) == \/ every
                        \/ tasks[records[e]].phase = "Continuing"
                        \/ tasks[records[e]].request \in Destructive
    IN
    /\ state' = "draining"
    /\ CancelAll({e \in DOMAIN records : cancelled(e)}, reason)
    /\ drain' = [stage |-> "Lanes", awaits |-> LaneTails]
    /\ UNCHANGED <<coordinator, records, order, lanes, receipts, exhausted, reader>>

Dispose ==
    /\ state \in {"idle", "open"}
    /\ BeginDrain("Stopped", FALSE)
    /\ UNCHANGED routed

\* onCoreEventStreamFailure: heard once; a drain that has begun is joined.
StreamFails ==
    /\ ~routed
    /\ state # "idle"
    /\ routed' = TRUE
    /\ IF state = "open" THEN BeginDrain("StreamFailure", TRUE)
       ELSE UNCHANGED <<state, coordinator, tasks, records, order, lanes, receipts,
                      exhausted, drain, reader>>

\* drainTasks: first the lanes, then terminal tasks until there are none.
DrainStep ==
    LET over == CASE drain.stage = "Lanes" -> \A t \in drain.awaits : ~OnLane(t)
                  [] drain.stage = "Terminal" -> \A t \in drain.awaits : ~OffLane(t)
                  [] OTHER -> FALSE
    IN
    /\ state = "draining"
    /\ over
    /\ IF Terminals # {}
       THEN /\ drain' = [stage |-> "Terminal", awaits |-> Terminals]
            /\ UNCHANGED <<state, records, order, lanes>>
       ELSE /\ state' = "disposed"
            /\ drain' = [stage |-> "None", awaits |-> {}]
            /\ records' = <<>>
            /\ order' = <<>>
            /\ lanes' = <<>>
    /\ UNCHANGED <<coordinator, tasks, receipts, exhausted, routed, reader>>

\* A new runtime of the same process; the receipts of the process stay.
Recreate ==
    /\ state = "disposed"
    /\ Within(Delivered, Len(tasks), coordinator + 1, {})
    /\ state' = "idle"
    /\ coordinator' = coordinator + 1
    /\ routed' = FALSE
    /\ reader' = NoReader
    /\ UNCHANGED <<tasks, records, order, lanes, receipts, exhausted, drain>>

-----------------------------------------------------------------------------
(* RuntimeWindowProjectionFence *)

\* Mutant: the fence lets an effect go when it has its answer.
Unanswered(w) ==
    {t \in DOMAIN tasks : /\ Projects(t)
                          /\ w \in ScopesOf[tasks[t].request]
                          /\ ~Settled(t)}

\* The terminals that the fence holds for a window.
Retained(w) ==
    {t \in DOMAIN tasks : /\ Projects(t)
                          /\ w \in ScopesOf[tasks[t].request]
                          /\ tasks[t].projection = "Pending"}

\* settleWindowProjection: the reader captures what is pending when it calls.
AskWindow(w) ==
    /\ state = "open"
    /\ reader = NoReader
    /\ Within(Delivered, Len(tasks), coordinator, {w})
    /\ reader' = [window |-> w, awaits |-> Retained(w), upTo |-> Len(tasks)]
    /\ UNCHANGED <<state, coordinator, tasks, records, order, lanes, receipts, exhausted,
                   drain, routed>>

\* It returns when all of them have settled, if the coordinator is still open.
ReaderPasses ==
    /\ reader # NoReader
    /\ state = "open"
    /\ \A t \in reader.awaits : tasks[t].projection = "Settled"
    /\ reader' = NoReader
    /\ UNCHANGED <<state, coordinator, tasks, records, order, lanes, receipts, exhausted,
                   drain, routed>>

\* It fails at the first projection that failed, or with the coordinator.
ReaderFails ==
    /\ reader # NoReader
    /\ \/ \E t \in reader.awaits : tasks[t].projection = "Failed"
       \/ state # "open" /\ \A t \in reader.awaits : tasks[t].projection = "Settled"
    /\ reader' = NoReader
    /\ UNCHANGED <<state, coordinator, tasks, records, order, lanes, receipts, exhausted,
                   drain, routed>>

-----------------------------------------------------------------------------
Next ==
    \/ Start
    \/ \E r \in Requests : Deliver(r)
    \/ \E t \in DOMAIN tasks :
          \/ Begin(t)
          \/ \E answer \in {"Ok", "Failed"} : ExecuteEnds(t, answer)
          \/ ExecuteContinues(t)
          \/ \E answer \in {"Ok", "Failed"} : ContinuationEnds(t, answer)
          \/ Replay(t)
          \/ \E ok \in BOOLEAN : Acknowledged(t, ok)
    \/ \E e \in Effects : Cancel(e)
    \/ CoreShutdown
    \/ Dispose
    \/ StreamFails
    \/ DrainStep
    \/ Recreate
    \/ \E w \in UNION {b.windows : b \in Bounds} : AskWindow(w)
    \/ ReaderPasses
    \/ ReaderFails

Spec == Init /\ [][Next]_vars

\* What goes on by itself: of these, a task can take one kind of step at a time.
TaskGoesOn(t) ==
    /\ t \in DOMAIN tasks
    /\ \/ Begin(t)
       \/ \E answer \in {"Ok", "Failed"} : ExecuteEnds(t, answer)
       \/ ExecuteContinues(t)
       \/ /\ tasks[t].reason # "None"
          /\ \E answer \in {"Ok", "Failed"} : ContinuationEnds(t, answer)
       \/ Replay(t)
       \/ \E ok \in BOOLEAN : Acknowledged(t, ok)

\* Promises that are settled go on; the host ends what it executes and what
\* was cancelled, and the Core classifies answers.  Nothing says that a native
\* event that nobody cancelled ever arrives.
FairSpec ==
    /\ Spec
    /\ \A t \in 1..MaxDeliveries : WF_vars(TaskGoesOn(t))
    /\ WF_vars(DrainStep)

-----------------------------------------------------------------------------
\* The types of the variables; the books agree about which task runs what.
TypeOK ==
    /\ state \in {"idle", "open", "draining", "disposed"}
    /\ coordinator \in Nat
    /\ tasks \in Seq(Task)
    /\ \A e \in DOMAIN records : tasks[records[e]].kind = "First"
    /\ Range(order) = DOMAIN records
    /\ DOMAIN lanes \subseteq Scopes
    /\ \A k \in DOMAIN lanes : OnLane(lanes[k])
    /\ exhausted \in BOOLEAN
    /\ routed \in BOOLEAN

\* Data of a role is cleared once: an effect that destroys is executed by at most
\* one task of the process, whatever is delivered again, forgotten by the
\* coordinator's own ledger, or sent to a later coordinator.
DestructiveRunsOnce ==
    \A t, u \in DOMAIN tasks :
        /\ tasks[t].kind = "First" /\ tasks[u].kind = "First"
        /\ EffectOf[tasks[t].request] = EffectOf[tasks[u].request]
        /\ {tasks[t].request, tasks[u].request} \subseteq Destructive
        => t = u

\* When a coordinator reports that it has stopped, no effect of it runs or
\* waits any more, and the Core has an answer for every effect it sent.
DisposedIsQuiet ==
    state = "disposed" => \A t \in DOMAIN tasks : tasks[t].phase = "Done"

\* An effect is reported as done although it was cancelled only if it had
\* become a continuation, whose host alone knows that it was done; and never if
\* the loss of the event stream is what cancelled it.
CancelledAnswers ==
    \A t \in DOMAIN tasks :
        /\ tasks[t].kind = "First"
        /\ tasks[t].answer = "Ok" /\ tasks[t].reason # "None"
        => tasks[t].continued /\ tasks[t].reason # "StreamFailure"

\* A launch that is let through the fence of a window finds every projection
\* executed and acknowledged that had been sent for the window before it asked.
FenceIsCoherent ==
    [][ReaderPasses =>
         \A t \in 1..reader.upTo :
             Projects(t) /\ reader.window \in ScopesOf[tasks[t].request]
             => tasks[t].phase = "Done"]_vars

\* A coordinator that was told to stop stops, even if no native event
\* that its effects wait for ever arrives.
DrainEnds == state = "draining" ~> state = "disposed"

\* Loss of the event stream beats every value that a continuation still
\* returns, as the comment in settleContinuation says.
StreamFailureWins ==
    [][\A t \in DOMAIN tasks :
          /\ tasks[t].phase = "Continuing" /\ tasks'[t].phase = "Acknowledging"
          /\ routed
          => tasks'[t].answer = "StreamFailed"]_vars

-----------------------------------------------------------------------------
\* The lanes are a lock over scopes, of which an effect on "app" takes all.
Locked(t) ==
    LET S == ScopesOf[tasks[t].request] IN IF "app" \in S THEN Scopes ELSE S
Queued == {t \in DOMAIN tasks : tasks[t].phase = "Queued"}
Before == [t \in 1..MaxDeliveries |-> IF t \in Queued THEN {u \in Queued : u < t} ELSE {}]
Executed == {t \in DOMAIN tasks : OnLane(t) /\ tasks[t].phase # "Queued"}
Wants == [t \in 1..MaxDeliveries |->
             IF t \in DOMAIN tasks /\ OnLane(t) THEN Locked(t) ELSE {}]
Lock == INSTANCE ScopedLock WITH
            MayRefuse <- FALSE,
            Threads <- 1..MaxDeliveries,
            waiting <- Queued,
            before <- Before,
            holders <- Executed,
            wants <- Wants

\* Effects on one scope are executed one at a time, in the order in which the Core
\* sent them, and one on "app" alone.
ServedInOrder == Lock!InOrder

\* No effect is forgotten in the queue: one that nobody stands in the way of
\* begins, or is answered if it was cancelled.
FreeIsServed == Lock!Decided

\* Nothing waits for good, be it an effect in the queue or who stops the
\* coordinator.
EffectsGoOn == FreeIsServed /\ DrainEnds
=============================================================================
