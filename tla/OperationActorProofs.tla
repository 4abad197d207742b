------------------------ MODULE OperationActorProofs ------------------------
(***************************************************************************)
(* What the operation actor keeps, for any operations, plans, capacities   *)
(* and interleaving, in three parts: the types; the discipline of the      *)
(* cancellation records, which are at most one per effect, never before    *)
(* its request, and none missing for the effects of a cancelled operation; *)
(* and the outcome, where every step that may have taken effect is         *)
(* compensated or reported, in reverse order, and at most one answer of    *)
(* the host to an effect is accepted.                                      *)
(***************************************************************************)
EXTENDS OperationActor, TLAPS

Running == Pc \ {"New", "Spawning", "Finish", "Leave", "Done"}

\* The thread stays inside its plan: its current step and the steps whose
\* compensations it keeps are steps of the plan, and nothing is kept before
\* the thread starts.
InPlan ==
    \A o \in Operations :
        /\ \A i \in DOMAIN undo[o] : undo[o][i] \in 1..Len(plan[o])
        /\ pc[o] \in Running => at[o] \in 1..Len(plan[o])
        /\ pc[o] \in {"New", "Spawning"} =>
              at[o] = 1 /\ mode[o] = "Forward" /\ undo[o] = <<>>

Inv1 == TypeOK /\ InPlan

-----------------------------------------------------------------------------
(* What the helpers of the module do to the types                          *)

LEMMA PlansAreShort ==
    ASSUME TypeOK, NEW o \in Operations
    PROVE  /\ plan[o] \in Seq(Step)
           /\ Len(plan[o]) \in 0..MaxSteps
  <1>1. CASE plan[o] = <<>>
    BY <1>1, CapacityAssumption
  <1>2. CASE plan[o] \in Plans
    BY <1>2, PlanAssumption, CapacityAssumption
  <1> QED
    BY <1>1, <1>2 DEF TypeOK, CallType

LEMMA CurrentIsEffect ==
    ASSUME Inv1, NEW o \in Operations, pc[o] \in Running
    PROVE  Current(o) \in EffectId
  <1>1. at[o] \in 1..MaxSteps
    BY PlansAreShort, CapacityAssumption DEF Inv1, InPlan
  <1>2. mode[o] \in {"Forward", "Reverse"}
    BY DEF Inv1, TypeOK, ThreadType
  <1> QED
    BY <1>1, <1>2 DEF Current, EffectId

LEMMA RememberType ==
    ASSUME TypeOK, NEW e \in EffectId, NEW how \in {"Completed", "TimedOut"},
           RememberCompleted(e, how)
    PROVE  /\ completed' \in [EffectId -> {"None", "Completed", "TimedOut"}]
           /\ completedOrder' \in Seq(EffectId)
  <1>1. completedOrder \in Seq(EffectId)
    BY DEF TypeOK, LedgerType
  <1>2. Append(completedOrder, e) \in Seq(EffectId) /\ Append(completedOrder, e) # <<>>
    BY <1>1
  <1>3. Tail(Append(completedOrder, e)) \in Seq(EffectId)
    BY <1>2
  <1>4. completedOrder' \in Seq(EffectId)
    BY <1>2, <1>3 DEF RememberCompleted
  <1>5. \A x \in EffectId : completed[x] \in {"None", "Completed", "TimedOut"}
    BY DEF TypeOK, LedgerType
  <1>6. completed' \in [EffectId -> {"None", "Completed", "TimedOut"}]
    BY <1>5 DEF RememberCompleted
  <1> QED
    BY <1>4, <1>6

LEMMA PublishType ==
    ASSUME published \in [EffectId -> Seq(Reason)], NEW e \in EffectId, NEW reason \in Reason,
           Publish(e, reason)
    PROVE  published' \in [EffectId -> Seq(Reason)]
  <1>1. published' = [published EXCEPT ![e] = Append(published[e], reason)]
    BY DEF Publish
  <1>2. published[e] \in Seq(Reason)
    OBVIOUS
  <1>3. Append(published[e], reason) \in Seq(Reason)
    BY <1>2
  <1> QED
    BY <1>1, <1>3

\* A stack of steps of o's plan.
StackOf(o, stack) ==
    /\ stack \in Seq(Nat \ {0})
    /\ \A i \in DOMAIN stack : stack[i] \in 1..Len(plan[o])

LEMMA PushedType ==
    ASSUME Inv1, NEW o \in Operations, pc[o] \in Running
    PROVE  StackOf(o, Pushed(o))
  <1>1. undo[o] \in Seq(Nat \ {0}) /\ at[o] \in Nat \ {0}
    BY DEF Inv1, TypeOK, ThreadType
  <1>2. at[o] \in 1..Len(plan[o]) /\ \A i \in DOMAIN undo[o] : undo[o][i] \in 1..Len(plan[o])
    BY DEF Inv1, InPlan
  <1> QED
    BY <1>1, <1>2 DEF Pushed, StackOf

LEMMA UnwindType ==
    ASSUME Inv1, NEW o \in Operations, NEW stack, StackOf(o, stack), Unwind(o, stack)
    PROVE  /\ pc' \in [Operations -> Pc]
           /\ at' \in [Operations -> Nat \ {0}]
           /\ mode' \in [Operations -> {"Forward", "Reverse"}]
           /\ undo' \in [Operations -> Seq(Nat \ {0})]
           /\ \A x \in Operations \ {o} :
                 pc'[x] = pc[x] /\ at'[x] = at[x] /\ mode'[x] = mode[x] /\ undo'[x] = undo[x]
           /\ pc'[o] \in {"Finish", "Admit"}
           /\ \A i \in DOMAIN undo'[o] : undo'[o][i] \in 1..Len(plan[o])
           /\ pc'[o] \in Running => at'[o] \in 1..Len(plan[o])
  <1>0. /\ pc \in [Operations -> Pc] /\ at \in [Operations -> Nat \ {0}]
        /\ mode \in [Operations -> {"Forward", "Reverse"}]
        /\ undo \in [Operations -> Seq(Nat \ {0})]
    BY DEF Inv1, TypeOK, ThreadType
  <1>1. CASE stack = <<>>
    <2>1. /\ pc' = [pc EXCEPT ![o] = "Finish"]
          /\ undo' = [undo EXCEPT ![o] = <<>>]
          /\ at' = at /\ mode' = mode
      BY <1>1 DEF Unwind, Goto
    <2> QED
      BY <1>0, <2>1 DEF Pc, Running
  <1>2. CASE stack # <<>>
    <2> DEFINE rest == SubSeq(stack, 1, Len(stack) - 1)
    <2>1. stack \in Seq(Nat \ {0}) /\ Len(stack) \in Nat \ {0}
      BY <1>2 DEF StackOf
    <2>2. stack[Len(stack)] \in 1..Len(plan[o]) /\ stack[Len(stack)] \in Nat \ {0}
      BY <2>1 DEF StackOf
    <2>3. /\ rest \in Seq(Nat \ {0})
          /\ \A i \in DOMAIN rest : rest[i] = stack[i] /\ i \in DOMAIN stack
      BY <2>1
    <2>4. /\ pc' = [pc EXCEPT ![o] = "Admit"]
          /\ at' = [at EXCEPT ![o] = stack[Len(stack)]]
          /\ mode' = [mode EXCEPT ![o] = "Reverse"]
          /\ undo' = [undo EXCEPT ![o] = rest]
      BY <1>2 DEF Unwind, Goto, Newest
    <2>5. \A i \in DOMAIN rest : rest[i] \in 1..Len(plan[o])
      BY <2>3 DEF StackOf
    <2> HIDE DEF rest
    <2> QED
      BY <1>0, <2>2, <2>3, <2>4, <2>5 DEF Pc, Running
  <1> QED
    BY <1>1, <1>2

LEMMA FailType ==
    ASSUME Inv1, NEW o \in Operations, pc[o] \in Running, plan' = plan,
           NEW why \in Failure, NEW retain \in BOOLEAN, Fail(o, why, retain)
    PROVE  ThreadType' /\ InPlan'
  <1>1. StackOf(o, IF retain THEN Pushed(o) ELSE undo[o])
    <2>1. StackOf(o, undo[o])
      BY DEF Inv1, TypeOK, ThreadType, InPlan, StackOf
    <2> QED
      BY <2>1, PushedType
  <1>2. Unwind(o, IF retain THEN Pushed(o) ELSE undo[o])
    BY DEF Fail
  <1>3. /\ failure' \in [Operations -> Failure]
        /\ undone' \in [Operations -> SUBSET (1..MaxSteps)]
        /\ undoFailed' \in [Operations -> SUBSET (1..MaxSteps)]
    BY DEF Inv1, TypeOK, ThreadType, Fail
  <1> HIDE DEF Fail
  <1>4. ThreadType'
    BY <1>1, <1>2, <1>3, UnwindType DEF ThreadType
  <1>5. InPlan'
    <2> SUFFICES ASSUME NEW x \in Operations PROVE InPlan!(x)'
      BY DEF InPlan
    <2> QED
      BY <1>1, <1>2, UnwindType DEF Inv1, InPlan, Running
  <1> QED
    BY <1>4, <1>5

LEMMA EndUndoType ==
    ASSUME Inv1, NEW o \in Operations, pc[o] \in Running, plan' = plan,
           NEW ok \in BOOLEAN, EndUndo(o, ok)
    PROVE  ThreadType' /\ InPlan'
  <1>1. StackOf(o, undo[o])
    BY DEF Inv1, TypeOK, ThreadType, InPlan, StackOf
  <1>2. Unwind(o, undo[o])
    BY DEF EndUndo
  <1>3. at[o] \in 1..MaxSteps
    BY PlansAreShort, CapacityAssumption DEF Inv1, InPlan
  <1>4. /\ failure' \in [Operations -> Failure]
        /\ undone' \in [Operations -> SUBSET (1..MaxSteps)]
        /\ undoFailed' \in [Operations -> SUBSET (1..MaxSteps)]
    <2>1. /\ undone \in [Operations -> SUBSET (1..MaxSteps)]
          /\ undoFailed \in [Operations -> SUBSET (1..MaxSteps)]
          /\ failure \in [Operations -> Failure]
      BY DEF Inv1, TypeOK, ThreadType
    <2>2. /\ failure' = failure
          /\ undone' \in {undone, [undone EXCEPT ![o] = @ \cup {at[o]}]}
          /\ undoFailed' \in {undoFailed, [undoFailed EXCEPT ![o] = @ \cup {at[o]}]}
      BY DEF EndUndo
    <2> QED
      BY <1>3, <2>1, <2>2
  <1>5. ThreadType'
    BY <1>1, <1>2, <1>4, UnwindType DEF ThreadType
  <1>6. InPlan'
    <2> SUFFICES ASSUME NEW x \in Operations PROVE InPlan!(x)'
      BY DEF InPlan
    <2> QED
      BY <1>1, <1>2, UnwindType DEF Inv1, InPlan, Running
  <1> QED
    BY <1>5, <1>6

LEMMA AdvanceType ==
    ASSUME Inv1, NEW o \in Operations, pc[o] \in Running, plan' = plan, Advance(o)
    PROVE  ThreadType' /\ InPlan'
  <1>1. StackOf(o, Pushed(o))
    BY PushedType
  <1>2. /\ undo' = [undo EXCEPT ![o] = Pushed(o)]
        /\ mode' = mode /\ undone' = undone /\ undoFailed' = undoFailed /\ failure' = failure
        /\ \/ at[o] = Len(plan[o]) /\ pc' = [pc EXCEPT ![o] = "Finish"] /\ at' = at
           \/ /\ at[o] # Len(plan[o])
              /\ pc' = [pc EXCEPT ![o] = "StepCheck"] /\ at' = [at EXCEPT ![o] = @ + 1]
    BY DEF Advance, Goto
  <1>3. /\ at[o] \in 1..Len(plan[o]) /\ Len(plan[o]) \in Nat
    BY PlansAreShort, CapacityAssumption DEF Inv1, InPlan
  <1>4. ThreadType'
    <2>1. ThreadType
      BY DEF Inv1, TypeOK
    <2>2. Pushed(o) \in Seq(Nat \ {0})
      BY <1>1 DEF StackOf
    <2>3. pc \in [Operations -> Pc] /\ at \in [Operations -> Nat \ {0}]
      BY <2>1 DEF ThreadType
    <2>4. pc' \in [Operations -> Pc]
      BY <1>2, <2>3 DEF Pc
    <2>5. at' = at \/ at' = [at EXCEPT ![o] = at[o] + 1]
      BY <1>2
    <2>6. at' \in [Operations -> Nat \ {0}]
      BY <1>3, <2>3, <2>5
    <2> QED
      BY <1>2, <2>1, <2>2, <2>4, <2>6 DEF ThreadType
  <1>5. InPlan'
    <2> SUFFICES ASSUME NEW x \in Operations PROVE InPlan!(x)'
      BY DEF InPlan
    <2>1. /\ pc \in [Operations -> Pc] /\ at \in [Operations -> Nat \ {0}]
          /\ undo \in [Operations -> Seq(Nat \ {0})]
      BY DEF Inv1, TypeOK, ThreadType
    <2> QED
      BY <1>1, <1>2, <1>3, <2>1 DEF Inv1, InPlan, Running, StackOf
  <1> QED
    BY <1>4, <1>5

LEMMA OutcomeType ==
    ASSUME Inv1, NEW o \in Operations, pc[o] \in Running, plan' = plan,
           \/ \E result \in {"Ok", "Rejected", "LateResult"} : Returned(o, result)
           \/ \E why \in Failure : Errored(o, why)
    PROVE  ThreadType' /\ InPlan'
  <1>1. ASSUME NEW result \in {"Ok", "Rejected", "LateResult"}, Returned(o, result)
        PROVE  ThreadType' /\ InPlan'
    <2>1. CASE mode[o] = "Forward" /\ result = "Ok" /\ Advance(o)
      BY <2>1, AdvanceType
    <2>2. CASE mode[o] = "Forward" /\ result # "Ok" /\ Fail(o, result, CurrentStep(o).onReject)
      <3>1. plan[o] \in Seq(Step) /\ at[o] \in 1..Len(plan[o])
        BY PlansAreShort DEF Inv1, InPlan
      <3>2. CurrentStep(o) \in Step
        BY <3>1 DEF CurrentStep
      <3>3. CurrentStep(o).onReject \in BOOLEAN
        BY <3>2 DEF Step
      <3> QED
        BY <2>2, <3>3, FailType DEF Failure
    <2>3. CASE mode[o] = "Reverse" /\ EndUndo(o, result = "Ok")
      BY <2>3, EndUndoType
    <2> QED
      BY <1>1, <2>1, <2>2, <2>3 DEF Returned
  <1>2. ASSUME NEW why \in Failure, Errored(o, why)
        PROVE  ThreadType' /\ InPlan'
    BY <1>2, FailType, EndUndoType DEF Errored
  <1> QED
    BY <1>1, <1>2

\* A step of the thread that moves its label and nothing else of run_operation.
LEMMA MoveType ==
    ASSUME Inv1, NEW o \in Operations, NEW label \in Pc \ {"New", "Spawning"},
           Goto(o, label), UNCHANGED <<plan, at, mode, undo, undone, undoFailed>>,
           failure' \in [Operations -> Failure],
           label \in Running => at[o] \in 1..Len(plan[o])
    PROVE  ThreadType' /\ InPlan'
  <1>1. ThreadType /\ pc' = [pc EXCEPT ![o] = label]
    BY DEF Inv1, TypeOK, Goto
  <1>2. ThreadType'
    BY <1>1 DEF ThreadType
  <1>3. pc \in [Operations -> Pc]
    BY <1>1 DEF ThreadType
  <1>4. InPlan'
    <2> SUFFICES ASSUME NEW x \in Operations PROVE InPlan!(x)'
      BY DEF InPlan
    <2> QED
      BY <1>1, <1>3 DEF Inv1, InPlan, Running
  <1> QED
    BY <1>2, <1>4

LEMMA StartType ==
    ASSUME Inv1, NEW o \in Operations, NEW p \in Plans, Start(o, p)
    PROVE  Inv1'
  <1>1. ThreadType /\ pc' = [pc EXCEPT ![o] = "Spawning"] /\ pc[o] = "New"
    BY DEF Inv1, TypeOK, Start, Goto
  <1>2. UNCHANGED <<at, mode, undo, undone, undoFailed, failure, held, fence>>
    BY DEF Start
  <1>3. ThreadType'
    BY <1>1, <1>2 DEF ThreadType, Pc
  <1>4. plan \in [Operations -> Plans \cup {<<>>}] /\ plan' = [plan EXCEPT ![o] = p]
    BY DEF Inv1, TypeOK, CallType, Start
  <1>5. CallType'
    BY <1>2, <1>4 DEF Inv1, TypeOK, CallType
  <1>6. LedgerType' /\ WireType' /\ HostType'
    BY DEF Inv1, TypeOK, LedgerType, WireType, HostType, Start, wireVars, hostVars
  <1>7. InPlan'
    <2> SUFFICES ASSUME NEW x \in Operations PROVE InPlan!(x)'
      BY DEF InPlan
    <2>1. pc \in [Operations -> Pc]
      BY <1>1 DEF ThreadType
    <2>2. CASE x = o
      BY <1>1, <1>2, <2>1, <2>2 DEF Inv1, InPlan, Running
    <2>3. CASE x # o
      BY <1>1, <1>2, <1>4, <2>1, <2>3 DEF Inv1, InPlan, Running
    <2> QED
      BY <2>2, <2>3
  <1> QED
    BY <1>3, <1>5, <1>6, <1>7 DEF Inv1, TypeOK

\* The threads: each of their steps preserves the types.
LEMMA ThreadStepType ==
    ASSUME Inv1, NEW o \in Operations, Thread(o)
    PROVE  Inv1'
  <1>0. /\ LedgerType /\ WireType /\ HostType /\ ThreadType /\ CallType
        /\ failure \in [Operations -> Failure]
        /\ pc[o] \in Running => at[o] \in 1..Len(plan[o]) /\ Current(o) \in EffectId
    BY CurrentIsEffect DEF Inv1, TypeOK, ThreadType, InPlan
  <1> USE DEF Pc, Running
  <1>1. CASE Spawn(o)
    <2>1. pc[o] = "Spawning" /\ at[o] = 1 /\ Len(plan[o]) \in Nat /\ (plan[o] # <<>> => 1 \in 1..Len(plan[o]))
      BY <1>1, PlansAreShort, CapacityAssumption DEF Spawn, Inv1, InPlan
    <2>2. ThreadType' /\ InPlan'
      BY <1>0, <1>1, <2>1, MoveType DEF Spawn
    <2>3. LedgerType' /\ WireType' /\ HostType' /\ CallType'
      BY <1>0, <1>1 DEF Spawn, LedgerType, WireType, HostType, CallType, ledgerVars, wireVars, hostVars
    <2> QED
      BY <2>2, <2>3 DEF Inv1, TypeOK
  <1>2. CASE RuntimeFails(o)
    <2>1. failure' \in [Operations -> Failure]
      BY <1>0, <1>2 DEF RuntimeFails, Failure
    <2>2. ThreadType' /\ InPlan'
      BY <1>0, <1>2, <2>1, MoveType DEF RuntimeFails
    <2>3. LedgerType' /\ WireType' /\ HostType' /\ CallType'
      BY <1>0, <1>2 DEF RuntimeFails, LedgerType, WireType, HostType, CallType, ledgerVars, wireVars, hostVars
    <2> QED
      BY <2>2, <2>3 DEF Inv1, TypeOK
  <1>3. CASE SpawnFails(o)
    <2>1. failure' \in [Operations -> Failure]
      BY <1>0, <1>3 DEF SpawnFails, Failure
    <2>2. ThreadType' /\ InPlan'
      BY <1>0, <1>3, <2>1, MoveType DEF SpawnFails
    <2>3. LedgerType' /\ WireType' /\ HostType' /\ CallType'
      BY <1>0, <1>3 DEF SpawnFails, LedgerType, WireType, HostType, CallType, wireVars, hostVars
    <2> QED
      BY <2>2, <2>3 DEF Inv1, TypeOK
  <1>4. CASE CheckCancelled(o)
    <2>1. ThreadType' /\ InPlan'
      <3>1. CASE cancelled[o]
        BY <1>4, <3>1, FailType DEF CheckCancelled, Failure
      <3>2. CASE ~cancelled[o]
        BY <1>0, <1>4, <3>2, MoveType DEF CheckCancelled
      <3> QED
        BY <3>1, <3>2
    <2>2. LedgerType' /\ WireType' /\ HostType' /\ CallType'
      BY <1>0, <1>4 DEF CheckCancelled, LedgerType, WireType, HostType, CallType, ledgerVars, wireVars, hostVars
    <2> QED
      BY <2>1, <2>2 DEF Inv1, TypeOK
  <1>5. CASE Admit(o)
    <2>1. ThreadType' /\ InPlan'
      BY <1>0, <1>5, MoveType DEF Admit
    <2>2. LedgerType'
      BY <1>0, <1>5 DEF Admit, LedgerType, Slot
    <2>3. WireType' /\ HostType' /\ CallType'
      BY <1>0, <1>5 DEF Admit, WireType, HostType, CallType, wireVars, hostVars
    <2> QED
      BY <2>1, <2>2, <2>3 DEF Inv1, TypeOK
  <1>6. CASE Refuse(o)
    <2>1. ThreadType' /\ InPlan'
      <3>1. Refusal(o) \in Failure
        BY DEF Refusal, Failure
      <3> QED
        BY <1>6, <3>1, OutcomeType DEF Refuse
    <2>2. LedgerType' /\ WireType' /\ HostType'
      BY <1>0, <1>6 DEF Refuse, LedgerType, WireType, HostType, ledgerVars, wireVars, hostVars
    <2>3. CallType'
      BY <1>0, <1>6 DEF Refuse, Resolve, CallType
    <2> QED
      BY <2>1, <2>2, <2>3 DEF Inv1, TypeOK
  <1>7. CASE Emit(o)
    <2>1. ThreadType' /\ InPlan'
      BY <1>0, <1>7, MoveType DEF Emit
    <2>2. HostType'
      BY <1>0, <1>7 DEF Emit, HostType
    <2>3. LedgerType' /\ WireType' /\ CallType'
      BY <1>0, <1>7 DEF Emit, LedgerType, WireType, CallType, ledgerVars, wireVars
    <2> QED
      BY <2>1, <2>2, <2>3 DEF Inv1, TypeOK
  <1>8. CASE MarkDispatched(o)
    <2>1. ThreadType' /\ InPlan'
      BY <1>0, <1>8, MoveType DEF MarkDispatched
    <2>2. LedgerType'
      <3>1. /\ \/ pending' = pending
               \/ /\ pending[Current(o)].phase # "Absent"
                  /\ pending' = [pending EXCEPT ![Current(o)].phase = "Dispatched"]
            /\ UNCHANGED <<shuttingDown, operations, cancelled, completed, completedOrder>>
        BY <1>0, <1>8 DEF MarkDispatched, PendingIds
      <3>2. pending \in [EffectId -> Slot] /\ pending[Current(o)] \in Slot
        BY <1>0, <1>8 DEF MarkDispatched, LedgerType
      <3>3. [pending[Current(o)] EXCEPT !.phase = "Dispatched"] \in Slot
        BY <3>2 DEF Slot
      <3>4. pending' \in [EffectId -> Slot]
        BY <3>1, <3>2, <3>3
      <3> QED
        BY <1>0, <3>1, <3>4 DEF LedgerType
    <2>3. CallType'
      BY <1>0, <1>8 DEF MarkDispatched, CallType, LedgerType, Slot, Deferred
    <2>4. WireType' /\ HostType'
      BY <1>0, <1>8 DEF MarkDispatched, WireType, HostType, wireVars, hostVars
    <2> QED
      BY <2>1, <2>2, <2>3, <2>4 DEF Inv1, TypeOK
  <1>9. CASE Recall(o)
    <2>1. ThreadType' /\ InPlan'
      BY <1>0, <1>9, MoveType DEF Recall
    <2>2. HostType'
      <3>1. held[o] \in Reason \cup {"None"} /\ published \in [EffectId -> Seq(Reason)]
        BY <1>0 DEF CallType, HostType
      <3>2. published' = published \/ (held[o] \in Reason /\ Publish(Current(o), held[o]))
        BY <1>9, <3>1 DEF Recall, Publish
      <3>3. published' \in [EffectId -> Seq(Reason)]
        BY <1>0, <1>9, <3>1, <3>2, PublishType DEF Recall
      <3> QED
        BY <1>0, <1>9, <3>3 DEF Recall, HostType
    <2>3. CallType'
      BY <1>0, <1>9 DEF Recall, CallType, Resolve
    <2>4. LedgerType' /\ WireType'
      BY <1>0, <1>9 DEF Recall, LedgerType, WireType, ledgerVars, wireVars
    <2> QED
      BY <2>1, <2>2, <2>3, <2>4 DEF Inv1, TypeOK
  <1>10. CASE Receive(o)
    <2>1. channel[Current(o)] \in {"Ok", "Rejected", "LateResult"}
      BY <1>0, <1>10 DEF Receive, WireType
    <2>2. ThreadType' /\ InPlan'
      BY <1>10, <2>1, OutcomeType DEF Receive
    <2>3. LedgerType' /\ WireType' /\ HostType' /\ CallType'
      BY <1>0, <1>10 DEF Receive, LedgerType, WireType, HostType, CallType, ledgerVars, wireVars, hostVars
    <2> QED
      BY <2>2, <2>3 DEF Inv1, TypeOK
  <1>11. CASE TimerFires(o)
    <2>1. ThreadType' /\ InPlan'
      BY <1>0, <1>11, MoveType DEF TimerFires
    <2>2. LedgerType' /\ WireType' /\ HostType' /\ CallType'
      BY <1>0, <1>11 DEF TimerFires, LedgerType, WireType, HostType, CallType, ledgerVars, wireVars, hostVars
    <2> QED
      BY <2>1, <2>2 DEF Inv1, TypeOK
  <1>12. CASE Expire(o)
    <2>1. ThreadType' /\ InPlan'
      BY <1>0, <1>12, MoveType DEF Expire
    <2>2. LedgerType' /\ CallType'
      <3>1. CASE Current(o) \in PendingIds
        <4>1. /\ pending' = [pending EXCEPT ![Current(o)] = Absent]
              /\ RememberCompleted(Current(o), "TimedOut")
              /\ UNCHANGED <<shuttingDown, operations, cancelled, plan, fence>>
              /\ held' \in {[held EXCEPT ![o] = "DeadlineElapsed"], [held EXCEPT ![o] = "None"]}
          BY <1>12, <3>1 DEF Expire, Take
        <4>2. /\ completed' \in [EffectId -> {"None", "Completed", "TimedOut"}]
              /\ completedOrder' \in Seq(EffectId)
          BY <1>0, <1>12, <4>1, RememberType DEF Inv1, Expire
        <4>3. LedgerType'
          BY <1>0, <4>1, <4>2 DEF LedgerType, Slot, Absent
        <4>4. CallType'
          BY <1>0, <4>1 DEF CallType, Reason
        <4> QED
          BY <4>3, <4>4
      <3>2. CASE Current(o) \notin PendingIds
        BY <1>0, <1>12, <3>2 DEF Expire, LedgerType, CallType
      <3> QED
        BY <3>1, <3>2
    <2>3. WireType' /\ HostType'
      BY <1>0, <1>12 DEF Expire, WireType, HostType, wireVars, hostVars
    <2> QED
      BY <2>1, <2>2, <2>3 DEF Inv1, TypeOK
  <1>13. CASE NotifyDeadline(o)
    <2>1. ThreadType' /\ InPlan'
      BY <1>13, OutcomeType DEF NotifyDeadline, Failure
    <2>2. HostType'
      <3>1. held[o] \in Reason \cup {"None"} /\ published \in [EffectId -> Seq(Reason)]
        BY <1>0 DEF CallType, HostType
      <3>2. published' = published \/ (held[o] \in Reason /\ Publish(Current(o), held[o]))
        BY <1>13, <3>1 DEF NotifyDeadline, Publish
      <3>3. published' \in [EffectId -> Seq(Reason)]
        BY <1>0, <1>13, <3>1, <3>2, PublishType DEF NotifyDeadline
      <3> QED
        BY <1>0, <1>13, <3>3 DEF NotifyDeadline, HostType
    <2>3. CallType'
      BY <1>0, <1>13 DEF NotifyDeadline, CallType
    <2>4. LedgerType' /\ WireType'
      BY <1>0, <1>13 DEF NotifyDeadline, LedgerType, WireType, ledgerVars, wireVars
    <2> QED
      BY <2>1, <2>2, <2>3, <2>4 DEF Inv1, TypeOK
  <1>14. CASE Finish(o)
    <2>1. ThreadType' /\ InPlan'
      BY <1>0, <1>14, MoveType DEF Finish
    <2>2. CallType'
      BY <1>0, <1>14 DEF Finish, CallType
    <2>3. LedgerType' /\ WireType' /\ HostType'
      BY <1>0, <1>14 DEF Finish, LedgerType, WireType, HostType, ledgerVars, wireVars, hostVars
    <2> QED
      BY <2>1, <2>2, <2>3 DEF Inv1, TypeOK
  <1>15. CASE Leave(o)
    <2>1. ThreadType' /\ InPlan'
      BY <1>0, <1>15, MoveType DEF Leave
    <2>2. LedgerType' /\ WireType' /\ HostType' /\ CallType'
      BY <1>0, <1>15 DEF Leave, LedgerType, WireType, HostType, CallType, wireVars, hostVars
    <2> QED
      BY <2>1, <2>2 DEF Inv1, TypeOK
  <1> QED
    BY <1>1, <1>2, <1>3, <1>4, <1>5, <1>6, <1>7, <1>8, <1>9, <1>10, <1>11,
       <1>12, <1>13, <1>14, <1>15 DEF Thread

LEMMA MarkType ==
    ASSUME LedgerType, NEW ids, NEW reason \in Reason, Mark(ids, reason)
    PROVE  pending' \in [EffectId -> Slot]
  <1>1. \A e \in EffectId : pending[e] \in Slot
    BY DEF LedgerType
  <1>2. \A e \in EffectId : [pending[e] EXCEPT !.reason = reason] \in Slot
    BY <1>1 DEF Slot
  <1> QED
    BY <1>1, <1>2 DEF Mark

LEMMA RecordsType ==
    ASSUME NEW ids, NEW reason \in Reason
    PROVE  Records(ids, reason) \subseteq Notice
  BY DEF Records, Unmarked, PendingIds, Notice

\* The callers and the clock leave the locals of the threads alone.
LEMMA CallersKeepThreads ==
    ASSUME Inv1, UNCHANGED threadVars
    PROVE  ThreadType' /\ CallType' /\ InPlan'
  BY DEF Inv1, TypeOK, ThreadType, CallType, InPlan, threadVars

LEMMA CancelType == ASSUME Inv1, NEW o \in Operations, Cancel(o) PROVE Inv1'
  <1>1. pending' \in [EffectId -> Slot]
    BY MarkType DEF Inv1, TypeOK, Cancel, Reason
  <1>2. LedgerType'
    BY <1>1 DEF Inv1, TypeOK, LedgerType, Cancel
  <1>3. outbox' \subseteq Notice
    BY RecordsType DEF Inv1, TypeOK, HostType, Cancel, Reason
  <1>4. HostType' /\ WireType'
    BY <1>3 DEF Inv1, TypeOK, HostType, WireType, Cancel, wireVars
  <1> QED
    BY <1>2, <1>4, CallersKeepThreads DEF Inv1, TypeOK, Cancel

LEMMA ShutdownType == ASSUME Inv1, Shutdown PROVE Inv1'
  <1>1. pending' \in [EffectId -> Slot]
    BY MarkType DEF Inv1, TypeOK, Shutdown, Reason
  <1>2. cancelled' \in [Operations -> BOOLEAN]
    BY DEF Inv1, TypeOK, LedgerType, Shutdown
  <1>3. LedgerType'
    BY <1>1, <1>2 DEF Inv1, TypeOK, LedgerType, Shutdown
  <1>4. outbox' \subseteq Notice
    BY RecordsType DEF Inv1, TypeOK, HostType, Shutdown, Reason
  <1>5. HostType' /\ WireType'
    BY <1>4 DEF Inv1, TypeOK, HostType, WireType, Shutdown, wireVars
  <1> QED
    BY <1>3, <1>5, CallersKeepThreads DEF Inv1, TypeOK, Shutdown

LEMMA EmitCancellationType == ASSUME Inv1, NEW n, EmitCancellation(n) PROVE Inv1'
  <1>1. n.effect \in EffectId /\ n.reason \in Reason
    BY DEF Inv1, TypeOK, HostType, EmitCancellation, Notice
  <1>2. published' \in [EffectId -> Seq(Reason)]
    BY <1>1, PublishType DEF Inv1, TypeOK, HostType, EmitCancellation
  <1>3. HostType' /\ LedgerType' /\ WireType'
    BY <1>2 DEF Inv1, TypeOK, HostType, LedgerType, WireType, EmitCancellation, ledgerVars, wireVars
  <1> QED
    BY <1>3, CallersKeepThreads DEF Inv1, TypeOK, EmitCancellation

LEMMA TakeType ==
    ASSUME TypeOK, NEW e \in EffectId, NEW how \in {"Completed", "TimedOut"}, Take(e, how),
           UNCHANGED <<shuttingDown, operations, cancelled>>
    PROVE  LedgerType'
  <1>1. /\ completed' \in [EffectId -> {"None", "Completed", "TimedOut"}]
        /\ completedOrder' \in Seq(EffectId)
    BY RememberType DEF Take
  <1>2. pending' \in [EffectId -> Slot]
    BY DEF TypeOK, LedgerType, Take, Slot, Absent
  <1> QED
    BY <1>1, <1>2 DEF TypeOK, LedgerType

LEMMA ClassifiedType ==
    ASSUME reports \in [EffectId -> Seq(Class)], NEW e \in EffectId, NEW class \in Class,
           Classified(e, class)
    PROVE  reports' \in [EffectId -> Seq(Class)]
  <1>1. reports' = [reports EXCEPT ![e] = Append(reports[e], class)]
    BY DEF Classified
  <1>2. Append(reports[e], class) \in Seq(Class)
    OBVIOUS
  <1> QED
    BY <1>1, <1>2

LEMMA DispatchType ==
    ASSUME Inv1, NEW e \in EffectId, NEW reply \in Replies, DispatchResult(e, reply)
    PROVE  Inv1'
  <1>0. /\ UNCHANGED <<channel, overdue, emitted, outbox, published>>
        /\ UNCHANGED threadVars
        /\ LedgerType /\ reports \in [EffectId -> Seq(Class)] /\ HostType /\ WireType
    BY DEF DispatchResult, Inv1, TypeOK, HostType
  <1>1. CASE DispatchUnmatched(e, reply)
    <2>1. completed[e] \in {"None", "Completed", "TimedOut"}
      BY <1>0 DEF LedgerType
    <2>2. \E class \in Class : Classified(e, class)
      BY <1>1, <2>1 DEF DispatchUnmatched, Class
    <2>3. reports' \in [EffectId -> Seq(Class)]
      BY <1>0, <2>2, ClassifiedType
    <2>4. LedgerType' /\ HostType' /\ WireType'
      BY <1>0, <1>1, <2>3 DEF DispatchUnmatched, LedgerType, HostType, WireType, ledgerVars
    <2> QED
      BY <1>0, <2>4, CallersKeepThreads DEF Inv1, TypeOK
  <1>2. CASE DispatchLate(e, reply)
    <2>1. LedgerType'
      BY <1>2, TakeType DEF DispatchLate, Inv1
    <2>2. reports' \in [EffectId -> Seq(Class)]
      BY <1>0, <1>2, ClassifiedType DEF DispatchLate, Class
    <2>3. HostType' /\ WireType'
      BY <1>0, <1>2, <2>2 DEF DispatchLate, HostType, WireType
    <2> QED
      BY <1>0, <2>1, <2>3, CallersKeepThreads DEF Inv1, TypeOK
  <1>3. CASE DispatchAccepted(e, reply)
    <2>1. LedgerType'
      BY <1>3, TakeType DEF DispatchAccepted, Inv1
    <2>2. reports' \in [EffectId -> Seq(Class)]
      BY <1>0, <1>3, ClassifiedType DEF DispatchAccepted, Class
    <2>3. reply \in {"Ok", "Rejected"}
      BY <1>3, PlanAssumption DEF DispatchAccepted, Reply
    <2>4. HostType' /\ WireType'
      BY <1>0, <1>3, <2>2, <2>3 DEF DispatchAccepted, HostType, WireType
    <2> QED
      BY <1>0, <2>1, <2>4, CallersKeepThreads DEF Inv1, TypeOK
  <1> QED
    BY <1>1, <1>2, <1>3 DEF DispatchResult

LEMMA SendResultType == ASSUME Inv1, NEW s, SendResult(s) PROVE Inv1'
  <1>1. s.effect \in EffectId /\ s.result \in {"Ok", "Rejected", "LateResult"}
    BY DEF Inv1, TypeOK, WireType, SendResult
  <1>2. WireType'
    BY <1>1 DEF Inv1, TypeOK, WireType, SendResult
  <1>3. LedgerType' /\ HostType'
    BY DEF Inv1, TypeOK, LedgerType, HostType, SendResult, ledgerVars, hostVars
  <1> QED
    BY <1>2, <1>3, CallersKeepThreads DEF Inv1, TypeOK, SendResult

LEMMA DeadlineElapsesType == ASSUME Inv1, NEW o \in Operations, DeadlineElapses(o) PROVE Inv1'
  <1>1. Current(o) \in EffectId
    BY CurrentIsEffect DEF DeadlineElapses, Running, Pc
  <1>2. WireType' /\ LedgerType' /\ HostType'
    BY <1>1 DEF Inv1, TypeOK, WireType, LedgerType, HostType, DeadlineElapses, ledgerVars, hostVars
  <1> QED
    BY <1>2, CallersKeepThreads DEF Inv1, TypeOK, DeadlineElapses

LEMMA InitType == Init => Inv1
  <1> SUFFICES ASSUME Init PROVE Inv1
    OBVIOUS
  <1>1. LedgerType /\ WireType
    <2>1. Absent \in Slot
      BY DEF Slot, Absent
    <2>2. pending \in [EffectId -> Slot]
      BY <2>1 DEF Init
    <2>3. sending \subseteq [effect : EffectId, result : {"Ok", "Rejected", "LateResult"}]
      BY DEF Init
    <2>4. /\ completed \in [EffectId -> {"None", "Completed", "TimedOut"}]
          /\ completedOrder \in Seq(EffectId)
          /\ channel \in [EffectId -> {"Empty", "Ok", "Rejected", "LateResult"}]
      BY DEF Init
    <2> QED
      BY <2>2, <2>3, <2>4 DEF Init, LedgerType, WireType
  <1>2. HostType /\ ThreadType /\ CallType
    BY DEF Init, HostType, ThreadType, CallType, Pc, Failure
  <1>3. InPlan
    BY DEF Init, InPlan, Running
  <1> QED
    BY <1>1, <1>2, <1>3 DEF Inv1, TypeOK

LEMMA StepType == Inv1 /\ [Next]_vars => Inv1'
  <1> SUFFICES ASSUME Inv1, [Next]_vars PROVE Inv1'
    OBVIOUS
  <1>1. ASSUME NEW o \in Operations, NEW p \in Plans, Start(o, p) PROVE Inv1'
    BY <1>1, StartType
  <1>2. ASSUME NEW o \in Operations, Thread(o) \/ Cancel(o) \/ DeadlineElapses(o) PROVE Inv1'
    BY <1>2, ThreadStepType, CancelType, DeadlineElapsesType
  <1>3. CASE Shutdown
    BY <1>3, ShutdownType
  <1>4. ASSUME NEW n \in outbox, EmitCancellation(n) PROVE Inv1'
    BY <1>4, EmitCancellationType
  <1>5. ASSUME NEW e \in emitted, NEW r \in Replies, DispatchResult(e, r) PROVE Inv1'
    BY <1>5, DispatchType DEF Inv1, TypeOK, HostType
  <1>6. ASSUME NEW s \in sending, SendResult(s) PROVE Inv1'
    BY <1>6, SendResultType
  <1>7. CASE UNCHANGED vars
    <2>1. LedgerType' /\ WireType' /\ HostType'
      BY <1>7 DEF vars, ledgerVars, wireVars, hostVars, Inv1, TypeOK, LedgerType, WireType, HostType
    <2> QED
      BY <1>7, <2>1, CallersKeepThreads DEF vars, Inv1, TypeOK
  <1> QED
    BY <1>1, <1>2, <1>3, <1>4, <1>5, <1>6, <1>7 DEF Next

\* Type correctness of the operation actor, for every plan and every schedule.
THEOREM TypeCorrect == Spec => []TypeOK
  <1>1. Inv1 => TypeOK
    BY DEF Inv1
  <1> QED
    BY <1>1, InitType, StepType, PTL DEF Spec

-----------------------------------------------------------------------------
(* Cancellation records: the inductive invariant                           *)

\* Steps whose compensation is kept come before the current step, in order.
StackOrdered(o) ==
    /\ \A i, j \in DOMAIN undo[o] : i < j => undo[o][i] < undo[o][j]
    /\ pc[o] \in Running => \A i \in DOMAIN undo[o] : undo[o][i] < at[o]

\* From the emission to the end of execute_effect, the current effect is emitted,
\* and a record is in the thread's hands only in the two places that publish it.
CallInProgress(o) ==
    /\ pc[o] \in {"Mark", "Recall", "Wait", "Expired", "DeadlineNotice"} => Current(o) \in emitted
    /\ held[o] # "None" => pc[o] \in {"Recall", "DeadlineNotice"}

\* No effect is emitted ahead of its thread, so an effect is admitted only once.
NotAhead(e) ==
    LET o == e.op
        behind == pc[o] \in {"Mark", "Recall", "Wait", "Expired", "DeadlineNotice", "Finish", "Leave", "Done"}
    IN  e \in emitted =>
           /\ pc[o] \notin {"New", "Spawning"}
           /\ e.mode = "Forward" =>
                 mode[o] = "Reverse" \/ e.step < at[o] \/ (e.step = at[o] /\ behind)
           /\ e.mode = "Reverse" =>
                 /\ mode[o] = "Reverse"
                 /\ e.step > at[o] \/ (e.step = at[o] /\ behind)

\* A pending effect is the one its thread is executing; it is in the emitting
\* phase exactly until the thread relocks.
PendingIsCurrent(e) ==
    IF e \in PendingIds
    THEN /\ Current(e.op) = e
         /\ pc[e.op] \in {"Emit", "Mark", "Recall", "Wait", "Expired"}
         /\ (pending[e].phase = "Emitting") <=> pc[e.op] \in {"Emit", "Mark"}
    ELSE pending[e].reason = "None"

\* The reason of a pending effect tells whether its record exists: while it is
\* being emitted the record is deferred, afterwards the two agree.
ReasonMatchesNotice(e) ==
    e \in PendingIds =>
        /\ Notified(e) <=> (pending[e].phase = "Dispatched" /\ pending[e].reason # "None")
        /\ cancelled[e.op] => pending[e].reason # "None"

OneNotice(e) ==
    /\ Len(published[e]) <= 1
    /\ \A n, m \in outbox : n.effect = e /\ m.effect = e => n = m
    /\ ~(Announced(e) /\ Queued(e))
    /\ ~(HeldFor(e) /\ (Announced(e) \/ Queued(e)))

\* A result that left pending stays out of it.
ResultTaken(e) ==
    (channel[e] # "Empty" \/ \E s \in sending : s.effect = e) => e \in emitted /\ e \notin PendingIds

ThreadInv(o) == StackOrdered(o) /\ CallInProgress(o)
EffectInv(e) ==
    /\ NotAhead(e) /\ PendingIsCurrent(e) /\ ReasonMatchesNotice(e) /\ OneNotice(e) /\ ResultTaken(e)
    /\ Notified(e) => e \in emitted

NoticeInv ==
    /\ \A o \in Operations : ThreadInv(o)
    /\ \A e \in EffectId : EffectInv(e)

Inv == Inv1 /\ NoticeInv

\* What an effect's part of the invariant depends on.
ThreadFrame(o) ==
    pc'[o] = pc[o] /\ at'[o] = at[o] /\ mode'[o] = mode[o] /\ held'[o] = held[o]
LedgerFrame(e) ==
    /\ pending'[e] = pending[e] /\ channel'[e] = channel[e]
    /\ cancelled'[e.op] = cancelled[e.op]
    /\ e \in emitted' <=> e \in emitted
    /\ \A s \in sending' : s.effect = e => s \in sending
RecordFrame(e) ==
    /\ published'[e] = published[e]
    /\ \A n \in outbox' : n.effect = e => n \in outbox
    /\ \A n \in outbox : n.effect = e => n \in outbox'

LEMMA Framed ==
    ASSUME NEW e \in EffectId, EffectInv(e),
           ThreadFrame(e.op), LedgerFrame(e), RecordFrame(e)
    PROVE  EffectInv(e)'
  <1> USE DEF EffectInv, ThreadFrame, LedgerFrame, RecordFrame
  <1>1. /\ Announced(e)' <=> Announced(e)
        /\ Queued(e)' <=> Queued(e)
        /\ HeldFor(e)' <=> HeldFor(e)
        /\ Current(e.op)' = Current(e.op)
        /\ (e \in PendingIds)' <=> e \in PendingIds
    BY DEF Announced, Queued, HeldFor, Current, PendingIds
  <1>2. Notified(e)' <=> Notified(e)
    BY <1>1 DEF Notified
  <1>3. NotAhead(e)'
    BY DEF NotAhead
  <1>4. PendingIsCurrent(e)'
    BY <1>1 DEF PendingIsCurrent
  <1>5. ReasonMatchesNotice(e)'
    BY <1>1, <1>2 DEF ReasonMatchesNotice
  <1>6. OneNotice(e)'
    BY <1>1 DEF OneNotice
  <1>7. ResultTaken(e)'
    BY <1>1 DEF ResultTaken
  <1> QED
    BY <1>2, <1>3, <1>4, <1>5, <1>6, <1>7

\* Where the thread goes when execute_effect, or the check before it, ends.
Moved(o) ==
    \/ pc'[o] = "Finish" /\ at'[o] = at[o] /\ mode'[o] = mode[o]
    \/ pc'[o] = "StepCheck" /\ at'[o] = at[o] + 1 /\ mode[o] = "Forward" /\ mode'[o] = "Forward"
    \/ /\ pc'[o] = "Admit" /\ mode'[o] = "Reverse"
       /\ mode[o] = "Reverse" => at'[o] < at[o]

StackIncreases(o, stack) ==
    /\ StackOf(o, stack)
    /\ \A i, j \in DOMAIN stack : i < j => stack[i] < stack[j]

LEMMA UnwindMoves ==
    ASSUME Inv1, NEW o \in Operations, NEW stack, StackIncreases(o, stack), Unwind(o, stack),
           mode[o] = "Reverse" => \A i \in DOMAIN stack : stack[i] < at[o]
    PROVE  Moved(o) /\ StackOrdered(o)'
  <1>0. ThreadType /\ stack \in Seq(Nat \ {0})
    BY DEF Inv1, TypeOK, StackIncreases, StackOf
  <1>1. CASE stack = <<>>
    <2>1. /\ pc' = [pc EXCEPT ![o] = "Finish"]
          /\ undo' = [undo EXCEPT ![o] = <<>>]
          /\ at' = at /\ mode' = mode
      BY <1>1 DEF Unwind, Goto
    <2>2. pc'[o] = "Finish" /\ undo'[o] = <<>>
      BY <1>0, <2>1 DEF ThreadType
    <2> QED
      BY <2>1, <2>2 DEF Moved, StackOrdered, Running
  <1>2. CASE stack # <<>>
    <2> DEFINE rest == SubSeq(stack, 1, Len(stack) - 1)
    <2>1. /\ pc' = [pc EXCEPT ![o] = "Admit"]
          /\ at' = [at EXCEPT ![o] = stack[Len(stack)]]
          /\ mode' = [mode EXCEPT ![o] = "Reverse"]
          /\ undo' = [undo EXCEPT ![o] = rest]
      BY <1>2 DEF Unwind, Goto, Newest
    <2>2. /\ Len(stack) \in DOMAIN stack
          /\ DOMAIN rest = 1..(Len(stack) - 1)
          /\ \A i \in DOMAIN rest : rest[i] = stack[i] /\ i \in DOMAIN stack /\ i < Len(stack)
      BY <1>0, <1>2
    <2>3. /\ pc'[o] = "Admit" /\ mode'[o] = "Reverse"
          /\ at'[o] = stack[Len(stack)] /\ undo'[o] = rest
      BY <1>0, <2>1 DEF ThreadType
    <2>4. Moved(o)
      BY <2>2, <2>3 DEF Moved
    <2> HIDE DEF rest
    <2>5. \A i, j \in DOMAIN rest : i < j => rest[i] < rest[j]
      BY <2>2 DEF StackIncreases
    <2>6. \A i \in DOMAIN rest : rest[i] < stack[Len(stack)]
      BY <2>2 DEF StackIncreases
    <2> QED
      BY <2>3, <2>4, <2>5, <2>6 DEF StackOrdered
  <1> QED
    BY <1>1, <1>2

LEMMA StacksIncrease ==
    ASSUME Inv1, NEW o \in Operations, pc[o] \in Running, StackOrdered(o)
    PROVE  StackIncreases(o, undo[o]) /\ StackIncreases(o, Pushed(o))
  <1>1. StackOf(o, undo[o]) /\ StackOf(o, Pushed(o))
    BY PushedType DEF Inv1, TypeOK, ThreadType, InPlan, StackOf
  <1>2. undo[o] \in Seq(Nat \ {0}) /\ at[o] \in Nat \ {0}
    BY DEF Inv1, TypeOK, ThreadType
  <1>3. \A i, j \in DOMAIN undo[o] : i < j => undo[o][i] < undo[o][j]
    BY DEF StackOrdered
  <1>4. \A i \in DOMAIN undo[o] : undo[o][i] < at[o]
    BY DEF StackOrdered
  <1>5. \A i, j \in DOMAIN Pushed(o) : i < j => Pushed(o)[i] < Pushed(o)[j]
    <2>1. CASE Pushed(o) = undo[o]
      BY <1>3, <2>1
    <2>2. CASE Pushed(o) = Append(undo[o], at[o])
      <3> DEFINE longer == Append(undo[o], at[o])
      <3>1. /\ Len(longer) = Len(undo[o]) + 1 /\ Len(undo[o]) \in Nat
            /\ DOMAIN longer = 1..(Len(undo[o]) + 1) /\ DOMAIN undo[o] = 1..Len(undo[o])
            /\ longer[Len(undo[o]) + 1] = at[o]
            /\ \A i \in 1..Len(undo[o]) : longer[i] = undo[o][i]
        BY <1>2
      <3> HIDE DEF longer
      <3> SUFFICES ASSUME NEW i \in DOMAIN longer, NEW j \in DOMAIN longer, i < j
                   PROVE  longer[i] < longer[j]
        BY <2>2 DEF longer
      <3>2. i \in DOMAIN undo[o] /\ longer[i] = undo[o][i]
        BY <3>1
      <3>3. CASE j \in DOMAIN undo[o]
        BY <1>3, <3>1, <3>2, <3>3
      <3>4. CASE j \notin DOMAIN undo[o]
        <4>1. j = Len(undo[o]) + 1
          BY <3>1, <3>4
        <4> QED
          BY <1>4, <3>1, <3>2, <4>1
      <3> QED
        BY <3>3, <3>4
    <2> QED
      BY <2>1, <2>2 DEF Pushed
  <1> QED
    BY <1>1, <1>3, <1>5 DEF StackIncreases

LEMMA OutcomeMoves ==
    ASSUME Inv1, NEW o \in Operations, pc[o] \in Running, StackOrdered(o),
           \/ \E result \in {"Ok", "Rejected", "LateResult"} : Returned(o, result)
           \/ \E why \in Failure : Errored(o, why)
           \/ \E why \in Failure : Fail(o, why, FALSE)
    PROVE  Moved(o) /\ StackOrdered(o)'
  <1>1. ASSUME NEW why, NEW retain \in BOOLEAN, mode[o] = "Forward", Fail(o, why, retain)
        PROVE  Moved(o) /\ StackOrdered(o)'
    BY <1>1, UnwindMoves, StacksIncrease DEF Fail
  <1>2. ASSUME NEW ok, EndUndo(o, ok)
        PROVE  Moved(o) /\ StackOrdered(o)'
    <2>1. \A i \in DOMAIN undo[o] : undo[o][i] < at[o]
      BY DEF StackOrdered
    <2> QED
      BY <1>2, <2>1, UnwindMoves, StacksIncrease DEF EndUndo
  <1>3. ASSUME mode[o] = "Forward", Advance(o)
        PROVE  Moved(o) /\ StackOrdered(o)'
    <2>1. /\ pc \in [Operations -> Pc] /\ at \in [Operations -> Nat \ {0}]
          /\ undo \in [Operations -> Seq(Nat \ {0})]
      BY DEF Inv1, TypeOK, ThreadType
    <2>2. undo'[o] = Pushed(o) /\ mode'[o] = mode[o]
      BY <1>3, <2>1 DEF Advance
    <2>3. \/ pc'[o] = "Finish" /\ at'[o] = at[o]
          \/ pc'[o] = "StepCheck" /\ at'[o] = at[o] + 1
      BY <1>3, <2>1 DEF Advance, Goto
    <2>4. Moved(o)
      BY <1>3, <2>2, <2>3 DEF Moved
    <2>5. \A i, j \in DOMAIN undo'[o] : i < j => undo'[o][i] < undo'[o][j]
      BY <2>2, StacksIncrease DEF StackIncreases
    <2>6. \A i \in DOMAIN Pushed(o) : Pushed(o)[i] < at[o] + 1
      <3>1. \A i \in DOMAIN undo[o] : undo[o][i] < at[o] /\ undo[o][i] \in Nat
        BY <2>1 DEF StackOrdered
      <3>2. undo[o] \in Seq(Nat \ {0}) /\ at[o] \in Nat
        BY <2>1
      <3>3. CASE Pushed(o) = undo[o]
        BY <3>1, <3>2, <3>3
      <3>4. CASE Pushed(o) = Append(undo[o], at[o])
        BY <3>1, <3>2, <3>4
      <3> QED
        BY <3>3, <3>4 DEF Pushed
    <2> QED
      BY <2>2, <2>3, <2>4, <2>5, <2>6 DEF StackOrdered, Running
  <1>4. ASSUME NEW result \in {"Ok", "Rejected", "LateResult"}, Returned(o, result)
        PROVE  Moved(o) /\ StackOrdered(o)'
    <2>1. /\ plan[o] \in Seq(Step) /\ at[o] \in 1..Len(plan[o])
      BY PlansAreShort DEF Inv1, InPlan
    <2>2. CurrentStep(o).onReject \in BOOLEAN
      <3>1. CurrentStep(o) \in Step
        BY <2>1 DEF CurrentStep
      <3> QED
        BY <3>1 DEF Step
    <2> QED
      BY <1>1, <1>2, <1>3, <1>4, <2>2 DEF Returned
  <1>5. ASSUME NEW why \in Failure, Errored(o, why)
        PROVE  Moved(o) /\ StackOrdered(o)'
    BY <1>1, <1>2, <1>5 DEF Errored
  <1>6. ASSUME NEW why, Fail(o, why, FALSE)
        PROVE  Moved(o) /\ StackOrdered(o)'
    <2>1. \A i \in DOMAIN undo[o] : undo[o][i] < at[o]
      BY DEF StackOrdered
    <2> QED
      BY <1>6, <2>1, UnwindMoves, StacksIncrease DEF Fail
  <1> QED
    BY <1>4, <1>5, <1>6

\* The four ways execute_effect, or the check before it, ends leave the other
\* threads alone.
LEMMA OutcomeIsLocal ==
    ASSUME Inv1, NEW o \in Operations,
           \/ \E result \in {"Ok", "Rejected", "LateResult"} : Returned(o, result)
           \/ \E why \in Failure : Errored(o, why)
           \/ \E why \in Failure : Fail(o, why, FALSE)
    PROVE  \A x \in Operations \ {o} :
              pc'[x] = pc[x] /\ at'[x] = at[x] /\ mode'[x] = mode[x] /\ undo'[x] = undo[x]
  <1>0. /\ pc \in [Operations -> Pc] /\ at \in [Operations -> Nat \ {0}]
        /\ mode \in [Operations -> {"Forward", "Reverse"}]
        /\ undo \in [Operations -> Seq(Nat \ {0})]
    BY DEF Inv1, TypeOK, ThreadType
  <1>1. ASSUME NEW stack, Unwind(o, stack)
        PROVE  \A x \in Operations \ {o} :
                  pc'[x] = pc[x] /\ at'[x] = at[x] /\ mode'[x] = mode[x] /\ undo'[x] = undo[x]
    BY <1>0, <1>1 DEF Unwind, Goto
  <1>2. ASSUME Advance(o)
        PROVE  \A x \in Operations \ {o} :
                  pc'[x] = pc[x] /\ at'[x] = at[x] /\ mode'[x] = mode[x] /\ undo'[x] = undo[x]
    BY <1>0, <1>2 DEF Advance, Goto
  <1>3. Advance(o) \/ \E stack : Unwind(o, stack)
    BY DEF Returned, Errored, Fail, EndUndo
  <1> QED
    BY <1>1, <1>2, <1>3

LEMMA IsCurrent ==
    ASSUME NEW e \in EffectId
    PROVE  /\ e.op \in Operations /\ e.step \in Nat /\ e.mode \in {"Forward", "Reverse"}
           /\ Current(e.op) = e <=> e.step = at[e.op] /\ e.mode = mode[e.op]
  BY CapacityAssumption DEF EffectId, Current

-----------------------------------------------------------------------------
(* Cancellation records: the steps of a thread                             *)

\* A step of thread o preserves the invariant when it preserves o's part of it.
LEMMA ThreadNotice ==
    ASSUME Inv, NEW o \in Operations,
           \A x \in Operations \ {o} : ThreadFrame(x) /\ undo'[x] = undo[x],
           \A e \in EffectId : e.op # o => LedgerFrame(e) /\ RecordFrame(e),
           emitted \subseteq emitted',
           ThreadInv(o)',
           \A e \in EffectId : e.op = o => EffectInv(e)'
    PROVE  NoticeInv'
  <1>1. ASSUME NEW x \in Operations, x # o PROVE ThreadInv(x)'
    <2>1. ThreadInv(x) /\ ThreadFrame(x) /\ undo'[x] = undo[x]
      BY <1>1 DEF Inv, NoticeInv
    <2>2. Current(x)' = Current(x)
      BY <2>1 DEF Current, ThreadFrame
    <2> QED
      BY <2>1, <2>2 DEF ThreadInv, StackOrdered, CallInProgress, ThreadFrame
  <1>2. ASSUME NEW e \in EffectId, e.op # o PROVE EffectInv(e)'
    BY <1>2, Framed, IsCurrent DEF Inv, NoticeInv
  <1> QED
    BY <1>1, <1>2 DEF NoticeInv

\* A thread moves from one label to the next and touches nothing else of it.
Move == {<<"New", "Spawning">>, <<"Spawning", "Finish">>, <<"Spawning", "StepCheck">>,
         <<"Spawning", "Done">>, <<"StepCheck", "Admit">>, <<"Wait", "Expired">>,
         <<"Finish", "Leave">>, <<"Leave", "Done">>}

LEMMA MoveNotice ==
    ASSUME Inv, NEW o \in Operations, NEW label, Goto(o, label), <<pc[o], label>> \in Move,
           UNCHANGED <<at, mode, undo, held, pending, channel, cancelled>>,
           UNCHANGED <<emitted, sending, published, outbox>>
    PROVE  NoticeInv'
  <1>0. /\ pc \in [Operations -> Pc] /\ pc' = [pc EXCEPT ![o] = label] /\ pc'[o] = label
        /\ ThreadInv(o)
    BY DEF Goto, Inv, Inv1, TypeOK, ThreadType, NoticeInv
  <1>1. ThreadInv(o)'
    <2>1. Current(o)' = Current(o)
      BY DEF Current
    <2>2. CallInProgress(o)'
      BY <1>0, <2>1 DEF Move, ThreadInv, CallInProgress
    <2>3. pc[o] \in {"New", "Spawning"} => undo[o] = <<>>
      BY DEF Inv, Inv1, InPlan
    <2>4. StackOrdered(o)'
      BY <1>0, <2>3 DEF Move, ThreadInv, StackOrdered, Running, Pc
    <2> QED
      BY <2>2, <2>4 DEF ThreadInv
  <1>2. ASSUME NEW e \in EffectId, e.op = o PROVE EffectInv(e)'
    <2>0. EffectInv(e)
      BY DEF Inv, NoticeInv
    <2>1. /\ Announced(e)' <=> Announced(e)
          /\ Queued(e)' <=> Queued(e)
          /\ HeldFor(e)' <=> HeldFor(e)
          /\ Current(e.op)' = Current(e.op)
          /\ (e \in PendingIds)' <=> e \in PendingIds
      BY DEF Announced, Queued, HeldFor, Current, PendingIds
    <2>2. Notified(e)' <=> Notified(e)
      BY <2>1 DEF Notified
    <2>3. NotAhead(e)'
      BY <1>0, <1>2, <2>0 DEF Move, EffectInv, NotAhead
    <2>4. PendingIsCurrent(e)'
      BY <1>0, <1>2, <2>0, <2>1 DEF Move, EffectInv, PendingIsCurrent
    <2>5. ReasonMatchesNotice(e)' /\ OneNotice(e)' /\ ResultTaken(e)'
      BY <2>0, <2>1, <2>2 DEF EffectInv, ReasonMatchesNotice, OneNotice, ResultTaken
    <2> QED
      BY <2>0, <2>2, <2>3, <2>4, <2>5 DEF EffectInv
  <1>3. \A x \in Operations \ {o} : ThreadFrame(x) /\ undo'[x] = undo[x]
    BY <1>0 DEF ThreadFrame
  <1>4. \A e \in EffectId : LedgerFrame(e) /\ RecordFrame(e)
    BY DEF LedgerFrame, RecordFrame
  <1> QED
    BY <1>1, <1>2, <1>3, <1>4, ThreadNotice

\* The thread publishes the record it holds, if any.
PublishHeld(o) ==
    /\ IF held[o] = "None" THEN published' = published ELSE Publish(Current(o), held[o])
    /\ held' = [held EXCEPT ![o] = "None"]

LEMMA HeldIsPublished ==
    ASSUME Inv, NEW o \in Operations, PublishHeld(o), pc[o] \in Running,
           outbox' = outbox, emitted' = emitted, NEW e \in EffectId
    PROVE  /\ e.op = o => OneNotice(e)'
           /\ e.op = o => (Notified(e)' <=> Notified(e))
           /\ e.op # o => published'[e] = published[e] /\ held'[e.op] = held[e.op]
           /\ held'[o] = "None"
  <1>1. /\ held \in [Operations -> Reason \cup {"None"}] /\ published \in [EffectId -> Seq(Reason)]
        /\ Current(o) \in EffectId /\ OneNotice(e)
    BY CurrentIsEffect DEF Inv, Inv1, TypeOK, CallType, HostType, NoticeInv, EffectInv
  <1>2. held'[o] = "None" /\ (e.op # o => held'[e.op] = held[e.op])
    BY <1>1, IsCurrent DEF PublishHeld
  <1>3. CASE held[o] # "None" /\ e = Current(o)
    <2>1. HeldFor(e) /\ ~Announced(e) /\ ~Queued(e) /\ e.op = o
      BY <1>1, <1>3 DEF OneNotice, HeldFor, Current
    <2>2. published' = [published EXCEPT ![e] = Append(published[e], held[o])] /\ published[e] = <<>>
      BY <1>3, <2>1 DEF PublishHeld, Publish, Announced
    <2>3. published'[e] = Append(<<>>, held[o])
      BY <1>1, <2>2
    <2>4. Len(published'[e]) = 1 /\ published'[e] # <<>>
      BY <2>3
    <2>5. Announced(e)' /\ ~Queued(e)' /\ ~HeldFor(e)'
      BY <1>2, <2>1, <2>4 DEF Announced, Queued, HeldFor
    <2>6. OneNotice(e)'
      BY <1>1, <2>4, <2>5 DEF OneNotice
    <2> QED
      BY <1>2, <2>1, <2>5, <2>6 DEF Notified
  <1>4. CASE ~(held[o] # "None" /\ e = Current(o))
    <2>1. published'[e] = published[e]
      BY <1>1, <1>4 DEF PublishHeld, Publish
    <2>2. e.op = o => ~HeldFor(e) /\ ~HeldFor(e)'
      BY <1>2, <1>4 DEF HeldFor
    <2>3. (Announced(e)' <=> Announced(e)) /\ (Queued(e)' <=> Queued(e))
      BY <2>1 DEF Announced, Queued
    <2>4. e.op = o => OneNotice(e)' /\ (Notified(e)' <=> Notified(e))
      BY <1>1, <2>1, <2>2, <2>3 DEF OneNotice, Notified
    <2> QED
      BY <1>2, <2>1, <2>4
  <1> QED
    BY <1>3, <1>4

\* execute_effect, or the check before it, ends: the current effect is no
\* longer pending and a record the thread held is published.
LEMMA OutcomeNotice ==
    ASSUME Inv, NEW o \in Operations, pc[o] \in {"StepCheck", "Admit", "Wait", "DeadlineNotice"},
           \/ \E result \in {"Ok", "Rejected", "LateResult"} : Returned(o, result)
           \/ \E why \in Failure : Errored(o, why)
           \/ \E why \in Failure : Fail(o, why, FALSE),
           PublishHeld(o), Current(o) \notin PendingIds,
           UNCHANGED <<pending, channel, cancelled, emitted, sending, outbox, plan>>
    PROVE  NoticeInv'
  <1>0. /\ pc[o] \in Running /\ ThreadInv(o) /\ Inv1
        /\ at[o] \in Nat \ {0} /\ mode[o] \in {"Forward", "Reverse"}
    BY DEF Inv, NoticeInv, Running, Pc, Inv1, TypeOK, ThreadType
  <1>1. Moved(o) /\ StackOrdered(o)'
    BY <1>0, OutcomeMoves DEF ThreadInv
  <1>2. \A e \in EffectId :
           /\ e.op = o => OneNotice(e)'
           /\ e.op = o => (Notified(e)' <=> Notified(e))
           /\ e.op # o => published'[e] = published[e] /\ held'[e.op] = held[e.op]
    BY <1>0, HeldIsPublished
  <1>3. held'[o] = "None" /\ \A x \in Operations \ {o} : held'[x] = held[x]
    BY DEF PublishHeld, Inv, Inv1, TypeOK, CallType
  <1>4. ThreadInv(o)'
    BY <1>1, <1>3 DEF Moved, ThreadInv, CallInProgress
  <1>5. ASSUME NEW e \in EffectId, e.op = o PROVE EffectInv(e)'
    <2>0. EffectInv(e)
      BY DEF Inv, NoticeInv
    <2>1. NotAhead(e)'
      <3>1. e.step \in Nat /\ e.mode \in {"Forward", "Reverse"}
        BY IsCurrent
      <3>2. CASE pc'[o] = "Finish" /\ at'[o] = at[o] /\ mode'[o] = mode[o]
        BY <1>5, <2>0, <3>2 DEF EffectInv, NotAhead
      <3>3. CASE pc'[o] = "StepCheck" /\ at'[o] = at[o] + 1 /\ mode[o] = "Forward" /\ mode'[o] = "Forward"
        BY <1>0, <1>5, <2>0, <3>1, <3>3 DEF EffectInv, NotAhead
      <3>4. CASE /\ pc'[o] = "Admit" /\ mode'[o] = "Reverse"
                 /\ mode[o] = "Reverse" => at'[o] < at[o]
        <4>1. at'[o] \in Nat
          <5>1. ThreadType'
            BY <1>0, OutcomeType, FailType
          <5> QED
            BY <5>1 DEF ThreadType
        <4> QED
          BY <1>0, <1>5, <2>0, <3>1, <3>4, <4>1 DEF EffectInv, NotAhead
      <3> QED
        BY <1>1, <3>2, <3>3, <3>4 DEF Moved
    <2>2. e \notin PendingIds /\ (e \in PendingIds)' = (e \in PendingIds)
      BY <1>5, <2>0 DEF EffectInv, PendingIsCurrent, PendingIds
    <2>3. PendingIsCurrent(e)' /\ ReasonMatchesNotice(e)' /\ ResultTaken(e)'
      BY <2>0, <2>2 DEF EffectInv, PendingIsCurrent, ReasonMatchesNotice, ResultTaken
    <2> QED
      BY <1>2, <1>5, <2>0, <2>1, <2>3 DEF EffectInv
  <1>6. \A x \in Operations \ {o} : ThreadFrame(x) /\ undo'[x] = undo[x]
    BY <1>0, <1>3, OutcomeIsLocal DEF ThreadFrame
  <1>7. \A e \in EffectId : e.op # o => LedgerFrame(e) /\ RecordFrame(e)
    BY <1>2 DEF LedgerFrame, RecordFrame
  <1> QED
    BY <1>4, <1>5, <1>6, <1>7, ThreadNotice

LEMMA AdmitNotice == ASSUME Inv, NEW o \in Operations, Admit(o) PROVE NoticeInv'
  <1> DEFINE c == Current(o)
  <1>0. /\ pc[o] = "Admit" /\ pc' = [pc EXCEPT ![o] = "Emit"] /\ pc \in [Operations -> Pc]
        /\ pending' = [pending EXCEPT ![c] = [phase |-> "Emitting", reason |-> "None"]]
        /\ pending \in [EffectId -> Slot] /\ c \in EffectId /\ c.op = o
        /\ ~cancelled[o]
        /\ UNCHANGED <<at, mode, undo, held, channel, cancelled>>
        /\ UNCHANGED <<emitted, sending, published, outbox>>
    BY CurrentIsEffect DEF Admit, Goto, Refusal, Inv, Inv1, TypeOK, ThreadType, LedgerType,
       Running, Pc, Current, wireVars, hostVars
  <1>1. pc'[o] = "Emit" /\ \A x \in Operations \ {o} : ThreadFrame(x) /\ undo'[x] = undo[x]
    BY <1>0 DEF ThreadFrame
  <1>2. ThreadInv(o) /\ EffectInv(c)
    BY <1>0 DEF Inv, NoticeInv
  <1>3. c \notin emitted /\ c \notin PendingIds
    BY <1>0, <1>2, IsCurrent DEF EffectInv, NotAhead, PendingIsCurrent
  <1>4. ThreadInv(o)'
    <2>1. Current(o)' = Current(o)
      BY <1>0 DEF Current
    <2> QED
      BY <1>0, <1>1, <1>2, <2>1 DEF ThreadInv, StackOrdered, CallInProgress, Running, Pc
  <1>5. ASSUME NEW e \in EffectId PROVE Notified(e)' <=> Notified(e)
    <2>1. Current(e.op)' = Current(e.op) /\ held' = held /\ published' = published /\ outbox' = outbox
      BY <1>0 DEF Current
    <2> QED
      BY <2>1 DEF Notified, Announced, Queued, HeldFor
  <1>6. ASSUME NEW e \in EffectId, e.op = o PROVE EffectInv(e)'
    <2>0. EffectInv(e) /\ (Current(e.op) = e <=> e = c)
      BY <1>6 DEF Inv, NoticeInv
    <2>1. NotAhead(e)'
      BY <1>0, <1>1, <1>6, <2>0 DEF EffectInv, NotAhead
    <2>2. OneNotice(e)'
      <3>1. Current(e.op)' = Current(e.op) /\ held' = held /\ published' = published /\ outbox' = outbox
        BY <1>0 DEF Current
      <3> QED
        BY <2>0, <3>1 DEF EffectInv, OneNotice, Announced, Queued, HeldFor
    <2>3. CASE e = c
      <3>1. pending'[e] = [phase |-> "Emitting", reason |-> "None"] /\ (e \in PendingIds)'
        BY <1>0, <2>3 DEF PendingIds
      <3>2. ~Notified(e)
        BY <1>3, <2>0, <2>3 DEF EffectInv
      <3>3. PendingIsCurrent(e)'
        BY <1>0, <1>1, <1>6, <2>3, <3>1 DEF PendingIsCurrent, Current
      <3>4. ReasonMatchesNotice(e)'
        BY <1>0, <1>5, <1>6, <3>1, <3>2 DEF ReasonMatchesNotice
      <3>5. ResultTaken(e)'
        BY <1>0, <1>3, <2>0, <2>3 DEF EffectInv, ResultTaken
      <3> QED
        BY <1>0, <1>5, <2>0, <2>1, <2>2, <3>3, <3>4, <3>5 DEF EffectInv
    <2>4. CASE e # c
      <3>1. pending'[e] = pending[e] /\ e \notin PendingIds /\ ~(e \in PendingIds)'
        BY <1>0, <2>0, <2>4 DEF EffectInv, PendingIsCurrent, PendingIds
      <3>2. PendingIsCurrent(e)' /\ ReasonMatchesNotice(e)' /\ ResultTaken(e)'
        BY <1>0, <2>0, <3>1 DEF EffectInv, PendingIsCurrent, ReasonMatchesNotice, ResultTaken
      <3> QED
        BY <1>0, <1>5, <2>0, <2>1, <2>2, <3>2 DEF EffectInv
    <2> QED
      BY <2>3, <2>4
  <1>7. \A e \in EffectId : e.op # o => LedgerFrame(e) /\ RecordFrame(e)
    BY <1>0 DEF LedgerFrame, RecordFrame
  <1> QED
    BY <1>0, <1>1, <1>4, <1>6, <1>7, ThreadNotice

LEMMA EmitNotice == ASSUME Inv, NEW o \in Operations, Emit(o) PROVE NoticeInv'
  <1> DEFINE c == Current(o)
  <1>0. /\ pc[o] = "Emit" /\ pc' = [pc EXCEPT ![o] = "Mark"] /\ pc \in [Operations -> Pc]
        /\ emitted' = emitted \cup {c} /\ c \in EffectId /\ c.op = o
        /\ UNCHANGED <<at, mode, undo, held, channel, cancelled, pending>>
        /\ UNCHANGED <<sending, published, outbox>>
    BY CurrentIsEffect DEF Emit, Goto, Inv, Inv1, TypeOK, ThreadType,
       Running, Pc, Current, wireVars, ledgerVars
  <1>1. pc'[o] = "Mark" /\ \A x \in Operations \ {o} : ThreadFrame(x) /\ undo'[x] = undo[x]
    BY <1>0 DEF ThreadFrame
  <1>2. ThreadInv(o) /\ Current(o)' = Current(o)
    BY <1>0 DEF Inv, NoticeInv, Current
  <1>3. ThreadInv(o)'
    BY <1>0, <1>1, <1>2 DEF ThreadInv, StackOrdered, CallInProgress, Running, Pc
  <1>4. ASSUME NEW e \in EffectId, e.op = o PROVE EffectInv(e)'
    <2>0. EffectInv(e)
      BY DEF Inv, NoticeInv
    <2>1. /\ Announced(e)' <=> Announced(e)
          /\ Queued(e)' <=> Queued(e)
          /\ HeldFor(e)' <=> HeldFor(e)
          /\ Current(e.op)' = Current(e.op)
          /\ (e \in PendingIds)' <=> e \in PendingIds
      BY <1>0, <1>2, <1>4 DEF Announced, Queued, HeldFor, PendingIds
    <2>2. Notified(e)' <=> Notified(e)
      BY <2>1 DEF Notified
    <2>3. NotAhead(e)'
      BY <1>0, <1>1, <1>4, <2>0, IsCurrent DEF EffectInv, NotAhead
    <2>4. PendingIsCurrent(e)'
      BY <1>0, <1>1, <1>4, <2>0, <2>1 DEF EffectInv, PendingIsCurrent
    <2>5. ReasonMatchesNotice(e)' /\ OneNotice(e)' /\ ResultTaken(e)'
      BY <1>0, <2>0, <2>1, <2>2 DEF EffectInv, ReasonMatchesNotice, OneNotice, ResultTaken
    <2> QED
      BY <1>0, <2>0, <2>2, <2>3, <2>4, <2>5 DEF EffectInv
  <1>5. \A e \in EffectId : e.op # o => LedgerFrame(e) /\ RecordFrame(e)
    BY <1>0 DEF LedgerFrame, RecordFrame
  <1> QED
    BY <1>0, <1>1, <1>3, <1>4, <1>5, ThreadNotice

\* The thread relocks after the emission and takes a deferred cancellation.
LEMMA MarkDispatchedNotice == ASSUME Inv, NEW o \in Operations, MarkDispatched(o) PROVE NoticeInv'
  <1> DEFINE c == Current(o)
  <1>0. /\ pc[o] = "Mark" /\ pc' = [pc EXCEPT ![o] = "Recall"] /\ pc \in [Operations -> Pc]
        /\ pending' = IF c \in PendingIds THEN [pending EXCEPT ![c].phase = "Dispatched"] ELSE pending
        /\ held' = [held EXCEPT ![o] = pending[c].reason]
        /\ pending \in [EffectId -> Slot] /\ held \in [Operations -> Reason \cup {"None"}]
        /\ c \in EffectId /\ c.op = o
        /\ UNCHANGED <<at, mode, undo, channel, cancelled>>
        /\ UNCHANGED <<emitted, sending, published, outbox>>
    BY CurrentIsEffect DEF MarkDispatched, Goto, Deferred, Inv, Inv1, TypeOK, ThreadType, LedgerType,
       CallType, Running, Pc, Current, wireVars, hostVars
  <1>1. /\ pc'[o] = "Recall" /\ held'[o] = pending[c].reason
        /\ \A x \in Operations \ {o} : ThreadFrame(x) /\ undo'[x] = undo[x]
    BY <1>0 DEF ThreadFrame
  <1>2. ThreadInv(o) /\ EffectInv(c) /\ Current(o)' = Current(o)
    BY <1>0 DEF Inv, NoticeInv, Current
  <1>3. ThreadInv(o)'
    BY <1>0, <1>1, <1>2 DEF ThreadInv, StackOrdered, CallInProgress, Running, Pc
  <1>4. ASSUME NEW e \in EffectId, e.op = o PROVE EffectInv(e)'
    <2>0. EffectInv(e) /\ Slot = [phase : {"Absent", "Emitting", "Dispatched"}, reason : Reason \cup {"None"}]
      BY DEF Inv, NoticeInv, Slot
    <2>1. /\ Announced(e)' <=> Announced(e)
          /\ Queued(e)' <=> Queued(e)
          /\ HeldFor(e)' <=> (e = c /\ pending[c].reason # "None")
          /\ ~HeldFor(e)
          /\ Current(e.op)' = Current(e.op)
      BY <1>0, <1>1, <1>2, <1>4 DEF Announced, Queued, HeldFor, ThreadInv, CallInProgress
    <2>2. NotAhead(e)'
      BY <1>0, <1>1, <1>4, <2>0 DEF EffectInv, NotAhead
    <2>3. CASE e = c /\ c \in PendingIds
      <3>1. pending'[e] = [phase |-> "Dispatched", reason |-> pending[e].reason] /\ (e \in PendingIds)'
        BY <1>0, <2>0, <2>3 DEF PendingIds
      <3>2. pending[e].phase = "Emitting"
        BY <1>0, <1>4, <2>0, <2>3 DEF EffectInv, PendingIsCurrent
      <3>3. ~Notified(e)
        BY <2>0, <2>3, <3>2 DEF EffectInv, ReasonMatchesNotice
      <3>4. Notified(e)' <=> pending[e].reason # "None"
        BY <2>1, <2>3, <3>3 DEF Notified
      <3>5. PendingIsCurrent(e)'
        BY <1>0, <1>1, <1>2, <1>4, <2>3, <3>1 DEF PendingIsCurrent
      <3>6. ReasonMatchesNotice(e)'
        BY <1>0, <2>0, <2>3, <3>1, <3>4 DEF EffectInv, ReasonMatchesNotice
      <3>7. OneNotice(e)'
        BY <1>0, <2>0, <2>1, <3>3 DEF EffectInv, OneNotice, Notified
      <3>8. e \in emitted
        BY <1>0, <1>2, <2>3 DEF ThreadInv, CallInProgress
      <3>9. ResultTaken(e)'
        BY <1>0, <2>0, <2>3 DEF EffectInv, ResultTaken
      <3> QED
        BY <1>0, <2>2, <3>5, <3>6, <3>7, <3>8, <3>9 DEF EffectInv
    <2>4. CASE ~(e = c /\ c \in PendingIds)
      <3>1. pending'[e] = pending[e] /\ e \notin PendingIds /\ ~(e \in PendingIds)'
        BY <1>0, <1>4, <2>0, <2>4 DEF EffectInv, PendingIsCurrent, PendingIds
      <3>2. e = c => pending[e].reason = "None"
        BY <2>0, <3>1 DEF EffectInv, PendingIsCurrent
      <3>3. ~HeldFor(e)' /\ (Notified(e)' <=> Notified(e))
        BY <2>1, <3>2 DEF Notified
      <3>4. PendingIsCurrent(e)' /\ ReasonMatchesNotice(e)' /\ OneNotice(e)' /\ ResultTaken(e)'
        BY <1>0, <2>0, <2>1, <3>1, <3>3
           DEF EffectInv, PendingIsCurrent, ReasonMatchesNotice, OneNotice, ResultTaken
      <3> QED
        BY <1>0, <2>0, <2>2, <3>3, <3>4 DEF EffectInv
    <2> QED
      BY <2>3, <2>4
  <1>5. \A e \in EffectId : e.op # o => LedgerFrame(e) /\ RecordFrame(e)
    BY <1>0 DEF LedgerFrame, RecordFrame
  <1> QED
    BY <1>0, <1>1, <1>3, <1>4, <1>5, ThreadNotice

LEMMA RecallNotice == ASSUME Inv, NEW o \in Operations, Recall(o) PROVE NoticeInv'
  <1>0. /\ pc[o] = "Recall" /\ pc' = [pc EXCEPT ![o] = "Wait"] /\ pc \in [Operations -> Pc]
        /\ PublishHeld(o) /\ pc[o] \in Running
        /\ held \in [Operations -> Reason \cup {"None"}]
        /\ UNCHANGED <<at, mode, undo, channel, cancelled, pending>>
        /\ UNCHANGED <<emitted, sending, outbox>>
    BY DEF Recall, Goto, PublishHeld, Inv, Inv1, TypeOK, ThreadType, CallType, Running, Pc,
       wireVars, ledgerVars
  <1>1. \A e \in EffectId :
           /\ e.op = o => OneNotice(e)'
           /\ e.op = o => (Notified(e)' <=> Notified(e))
           /\ e.op # o => published'[e] = published[e] /\ held'[e.op] = held[e.op]
           /\ held'[o] = "None"
    BY <1>0, HeldIsPublished
  <1>2. /\ pc'[o] = "Wait" /\ held'[o] = "None"
        /\ \A x \in Operations \ {o} : ThreadFrame(x) /\ undo'[x] = undo[x]
    BY <1>0 DEF ThreadFrame, PublishHeld
  <1>3. ThreadInv(o)'
    <2>1. ThreadInv(o) /\ Current(o)' = Current(o)
      BY <1>0 DEF Inv, NoticeInv, Current
    <2> QED
      BY <1>0, <1>2, <2>1 DEF ThreadInv, StackOrdered, CallInProgress, Running, Pc
  <1>4. ASSUME NEW e \in EffectId, e.op = o PROVE EffectInv(e)'
    <2>0. EffectInv(e) /\ (e \in PendingIds)' = (e \in PendingIds) /\ Current(e.op)' = Current(e.op)
      BY <1>0 DEF Inv, NoticeInv, PendingIds, Current
    <2>1. NotAhead(e)'
      BY <1>0, <1>2, <1>4, <2>0 DEF EffectInv, NotAhead
    <2>2. PendingIsCurrent(e)'
      BY <1>0, <1>2, <1>4, <2>0 DEF EffectInv, PendingIsCurrent
    <2>3. ReasonMatchesNotice(e)' /\ ResultTaken(e)'
      BY <1>0, <1>1, <1>4, <2>0 DEF EffectInv, ReasonMatchesNotice, ResultTaken
    <2> QED
      BY <1>0, <1>1, <1>4, <2>0, <2>1, <2>2, <2>3 DEF EffectInv
  <1>5. \A e \in EffectId : e.op # o => LedgerFrame(e) /\ RecordFrame(e)
    BY <1>0, <1>1 DEF LedgerFrame, RecordFrame
  <1> QED
    BY <1>0, <1>2, <1>3, <1>4, <1>5, ThreadNotice

\* The deadline takes the effect out of pending, unless a result did.
LEMMA ExpireNotice == ASSUME Inv, NEW o \in Operations, Expire(o) PROVE NoticeInv'
  <1> DEFINE c == Current(o)
             reason == IF c \in PendingIds /\ pending[c].reason = "None"
                       THEN "DeadlineElapsed" ELSE "None"
  <1>0. /\ pc[o] = "Expired" /\ pc' = [pc EXCEPT ![o] = "DeadlineNotice"] /\ pc \in [Operations -> Pc]
        /\ pending' = IF c \in PendingIds THEN [pending EXCEPT ![c] = Absent] ELSE pending
        /\ pending \in [EffectId -> Slot] /\ held \in [Operations -> Reason \cup {"None"}]
        /\ c \in EffectId /\ c.op = o
        /\ UNCHANGED <<at, mode, undo, channel, cancelled>>
        /\ UNCHANGED <<emitted, sending, published, outbox>>
    BY CurrentIsEffect DEF Expire, Take, Goto, Inv, Inv1, TypeOK, ThreadType, LedgerType,
       CallType, Running, Pc, Current, wireVars, hostVars
  <1>1. ThreadInv(o) /\ EffectInv(c) /\ Current(o)' = Current(o)
    BY <1>0 DEF Inv, NoticeInv, Current
  <1>2. held[o] = "None"
    BY <1>0, <1>1 DEF ThreadInv, CallInProgress
  <1>3. held' = [held EXCEPT ![o] = reason]
    BY <1>0, <1>2 DEF Expire
  <1>4. /\ pc'[o] = "DeadlineNotice" /\ held'[o] = reason
        /\ \A x \in Operations \ {o} : ThreadFrame(x) /\ undo'[x] = undo[x]
    BY <1>0, <1>3 DEF ThreadFrame
  <1>5. ThreadInv(o)'
    BY <1>0, <1>1, <1>4 DEF ThreadInv, StackOrdered, CallInProgress, Running, Pc
  <1>6. ASSUME NEW e \in EffectId, e.op = o PROVE EffectInv(e)'
    <2>0. EffectInv(e) /\ Slot = [phase : {"Absent", "Emitting", "Dispatched"}, reason : Reason \cup {"None"}]
      BY DEF Inv, NoticeInv, Slot
    <2>1. /\ Announced(e)' <=> Announced(e)
          /\ Queued(e)' <=> Queued(e)
          /\ HeldFor(e)' <=> (e = c /\ reason # "None")
          /\ ~HeldFor(e)
          /\ Current(e.op)' = Current(e.op)
      BY <1>0, <1>1, <1>2, <1>4, <1>6 DEF Announced, Queued, HeldFor
    <2>2. NotAhead(e)'
      BY <1>0, <1>4, <1>6, <2>0 DEF EffectInv, NotAhead
    <2>3. ~(e \in PendingIds)' /\ pending'[e].reason = "None"
      <3>1. CASE e \in PendingIds
        <4>1. e = c
          BY <1>0, <1>6, <2>0, <3>1 DEF EffectInv, PendingIsCurrent
        <4> QED
          BY <1>0, <3>1, <4>1 DEF PendingIds, Absent
      <3>2. CASE e \notin PendingIds
        BY <1>0, <2>0, <3>2 DEF PendingIds, EffectInv, PendingIsCurrent, Absent
      <3> QED
        BY <3>1, <3>2
    <2>4. PendingIsCurrent(e)' /\ ReasonMatchesNotice(e)' /\ ResultTaken(e)'
      BY <1>0, <2>0, <2>3 DEF EffectInv, PendingIsCurrent, ReasonMatchesNotice, ResultTaken
    <2>5. HeldFor(e)' => ~Announced(e) /\ ~Queued(e) /\ e \in emitted
      <3> SUFFICES ASSUME e = c, c \in PendingIds, pending[c].reason = "None"
                   PROVE  ~Announced(e) /\ ~Queued(e) /\ e \in emitted
        BY <2>1
      <3>1. ~Notified(e)
        BY <2>0 DEF EffectInv, ReasonMatchesNotice
      <3> QED
        BY <1>0, <1>1, <3>1 DEF Notified, ThreadInv, CallInProgress
    <2>6. OneNotice(e)'
      BY <1>0, <2>0, <2>1, <2>5 DEF EffectInv, OneNotice
    <2>7. Notified(e)' => e \in emitted'
      BY <1>0, <2>0, <2>1, <2>5 DEF EffectInv, Notified
    <2> QED
      BY <2>2, <2>4, <2>6, <2>7 DEF EffectInv
  <1>7. \A e \in EffectId : e.op # o => LedgerFrame(e) /\ RecordFrame(e)
    BY <1>0 DEF LedgerFrame, RecordFrame
  <1> QED
    BY <1>0, <1>4, <1>5, <1>6, <1>7, ThreadNotice

LEMMA ThreadStepNotice == ASSUME Inv, NEW o \in Operations, Thread(o) PROVE NoticeInv'
  <1>0. Inv1 /\ ThreadInv(o) /\ held \in [Operations -> Reason \cup {"None"}]
    BY DEF Inv, NoticeInv, Inv1, TypeOK, CallType
  <1>1. ASSUME pc[o] \in {"StepCheck", "Admit"}
        PROVE  held[o] = "None" /\ Current(o) \notin PendingIds
    <2>1. Current(o) \in EffectId /\ Current(o).op = o
      BY <1>0, <1>1, CurrentIsEffect DEF Running, Pc, Current
    <2>2. EffectInv(Current(o))
      BY <2>1 DEF Inv, NoticeInv
    <2> QED
      BY <1>0, <1>1, <2>1, <2>2 DEF ThreadInv, CallInProgress, EffectInv, PendingIsCurrent
  <1>2. ASSUME UNCHANGED <<held, published>>, held[o] = "None" PROVE PublishHeld(o)
    BY <1>0, <1>2 DEF PublishHeld
  <1>3. CASE CheckCancelled(o)
    <2>1. CASE cancelled[o]
      <3>1. UNCHANGED <<held, published, pending, channel, cancelled, emitted, sending, outbox, plan>>
        BY <1>3, <2>1 DEF CheckCancelled, ledgerVars, wireVars, hostVars
      <3> QED
        BY <1>1, <1>2, <1>3, <2>1, <3>1, OutcomeNotice DEF CheckCancelled, Failure
    <2>2. CASE ~cancelled[o]
      BY <1>3, <2>2, MoveNotice DEF CheckCancelled, Move, ledgerVars, wireVars, hostVars
    <2> QED
      BY <2>1, <2>2
  <1>4. CASE Refuse(o)
    <2>1. UNCHANGED <<held, published, pending, channel, cancelled, emitted, sending, outbox, plan>>
      BY <1>4 DEF Refuse, ledgerVars, wireVars, hostVars
    <2>2. Refusal(o) \in Failure
      BY DEF Refusal, Failure
    <2> QED
      BY <1>1, <1>2, <1>4, <2>1, <2>2, OutcomeNotice DEF Refuse
  <1>5. CASE Receive(o)
    <2>1. UNCHANGED <<held, published, pending, channel, cancelled, emitted, sending, outbox, plan>>
      BY <1>5 DEF Receive, ledgerVars, wireVars, hostVars
    <2>2. Current(o) \in EffectId /\ held[o] = "None" /\ pc[o] = "Wait"
      BY <1>0, <1>5, CurrentIsEffect DEF Receive, Running, Pc, ThreadInv, CallInProgress
    <2>3. EffectInv(Current(o)) /\ channel[Current(o)] # "Empty"
      BY <1>5, <2>2 DEF Inv, NoticeInv, Receive
    <2>4. channel[Current(o)] \in {"Ok", "Rejected", "LateResult"} /\ Current(o) \notin PendingIds
      BY <1>0, <2>2, <2>3 DEF Inv1, TypeOK, WireType, EffectInv, ResultTaken
    <2> QED
      BY <1>2, <1>5, <2>1, <2>2, <2>4, OutcomeNotice DEF Receive
  <1>6. CASE NotifyDeadline(o)
    <2>1. /\ UNCHANGED <<pending, channel, cancelled, emitted, sending, outbox, plan>>
          /\ PublishHeld(o)
      BY <1>6 DEF NotifyDeadline, PublishHeld, ledgerVars, wireVars
    <2>2. Current(o) \in EffectId /\ pc[o] = "DeadlineNotice" /\ Current(o).op = o
      BY <1>0, <1>6, CurrentIsEffect DEF NotifyDeadline, Running, Pc, Current
    <2>3. Current(o) \notin PendingIds
      BY <2>2 DEF Inv, NoticeInv, EffectInv, PendingIsCurrent
    <2> QED
      BY <1>6, <2>1, <2>2, <2>3, OutcomeNotice DEF NotifyDeadline, Failure
  <1>7. CASE Spawn(o) \/ RuntimeFails(o) \/ SpawnFails(o) \/ TimerFires(o) \/ Finish(o) \/ Leave(o)
    <2>1. UNCHANGED <<at, mode, undo, held, pending, channel, cancelled>>
      BY <1>7 DEF Spawn, RuntimeFails, SpawnFails, TimerFires, Finish, Leave, ledgerVars, wireVars, hostVars
    <2>2. UNCHANGED <<emitted, sending, published, outbox>>
      BY <1>7 DEF Spawn, RuntimeFails, SpawnFails, TimerFires, Finish, Leave, ledgerVars, wireVars, hostVars
    <2>3. \E label : Goto(o, label) /\ <<pc[o], label>> \in Move
      BY <1>7 DEF Spawn, RuntimeFails, SpawnFails, TimerFires, Finish, Leave, Move
    <2> QED
      BY <2>1, <2>2, <2>3, MoveNotice
  <1> QED
    BY <1>3, <1>4, <1>5, <1>6, <1>7, AdmitNotice, EmitNotice, MarkDispatchedNotice, RecallNotice,
       ExpireNotice DEF Thread

-----------------------------------------------------------------------------
(* Cancellation records: the callers                                       *)

\* The callers leave the locals of the threads, and what they sent, alone.
LEMMA CallerNotice ==
    ASSUME Inv, UNCHANGED threadVars, emitted' = emitted,
           \A e \in EffectId : (LedgerFrame(e) /\ RecordFrame(e)) \/ EffectInv(e)'
    PROVE  NoticeInv'
  <1>1. \A o \in Operations : ThreadFrame(o) /\ Current(o)' = Current(o) /\ undo'[o] = undo[o]
    BY DEF ThreadFrame, threadVars, Current
  <1>2. ASSUME NEW o \in Operations PROVE ThreadInv(o)'
    BY <1>1 DEF Inv, NoticeInv, ThreadInv, StackOrdered, CallInProgress, ThreadFrame
  <1>3. ASSUME NEW e \in EffectId PROVE EffectInv(e)'
    BY <1>1, Framed, IsCurrent DEF Inv, NoticeInv
  <1> QED
    BY <1>2, <1>3 DEF NoticeInv

\* Cancel and shutdown: the marked effects that the host holds get a record.
LEMMA MarkNotice ==
    ASSUME Inv, NEW ids, NEW reason \in Reason, Mark(ids, reason),
           outbox' = outbox \cup Records(ids, reason),
           \A e \in EffectId : cancelled'[e.op] => cancelled[e.op] \/ e \in ids,
           UNCHANGED <<emitted, published, channel, sending, threadVars>>
    PROVE  NoticeInv'
  <1> SUFFICES ASSUME NEW e \in EffectId PROVE EffectInv(e)'
    BY CallerNotice
  <1>0. /\ EffectInv(e) /\ reason # "None" /\ pending[e] \in Slot
        /\ UNCHANGED <<pc, at, mode, held>>
        /\ Current(e.op)' = Current(e.op)
    BY DEF Inv, NoticeInv, Inv1, TypeOK, LedgerType, threadVars, Current, Reason
  <1>1. pending'[e] = IF e \in Unmarked(ids) THEN [pending[e] EXCEPT !.reason = reason] ELSE pending[e]
    BY DEF Mark
  <1>2. /\ pending'[e].phase = pending[e].phase
        /\ pending'[e].reason = IF e \in Unmarked(ids) THEN reason ELSE pending[e].reason
    BY <1>0, <1>1 DEF Slot
  <1>3. (e \in PendingIds)' <=> e \in PendingIds
    BY <1>2 DEF PendingIds
  <1>4. /\ Announced(e)' <=> Announced(e)
        /\ HeldFor(e)' <=> HeldFor(e)
    BY <1>0 DEF Announced, HeldFor
  <1>5. /\ NotAhead(e)' /\ ResultTaken(e)'
    BY <1>0, <1>3 DEF EffectInv, NotAhead, ResultTaken
  <1>6. PendingIsCurrent(e)'
    BY <1>0, <1>2, <1>3 DEF EffectInv, PendingIsCurrent, Unmarked
  <1>7. CASE e \in Unmarked(ids) /\ pending[e].phase = "Dispatched"
    <2>1. ~Notified(e) /\ e \in PendingIds
      BY <1>0, <1>7 DEF EffectInv, ReasonMatchesNotice, Unmarked
    <2>2. [effect |-> e, reason |-> reason] \in outbox'
      BY <1>7 DEF Records
    <2>3. \A n \in outbox' : n.effect = e => n = [effect |-> e, reason |-> reason]
      BY <2>1 DEF Records, Notified, Queued
    <2>4. Queued(e)' /\ ~Announced(e)' /\ ~HeldFor(e)'
      BY <1>4, <2>1, <2>2 DEF Queued, Notified
    <2>5. ReasonMatchesNotice(e)'
      BY <1>0, <1>2, <1>7, <2>4 DEF ReasonMatchesNotice, Notified
    <2>6. OneNotice(e)'
      BY <1>0, <2>3, <2>4 DEF EffectInv, OneNotice
    <2>7. e \in emitted
      <3>1. Current(e.op) = e /\ pc[e.op] \in {"Recall", "Wait", "Expired"}
        BY <1>0, <1>7, <2>1 DEF EffectInv, PendingIsCurrent
      <3> QED
        BY <3>1, IsCurrent DEF Inv, NoticeInv, ThreadInv, CallInProgress
    <2> QED
      BY <1>5, <1>6, <2>5, <2>6, <2>7 DEF EffectInv
  <1>8. CASE ~(e \in Unmarked(ids) /\ pending[e].phase = "Dispatched")
    <2>1. \A n \in outbox' : n.effect = e => n \in outbox
      BY <1>8 DEF Records
    <2>2. Queued(e)' <=> Queued(e)
      BY <2>1 DEF Queued
    <2>3. Notified(e)' <=> Notified(e)
      BY <1>4, <2>2 DEF Notified
    <2>4. OneNotice(e)'
      BY <1>0, <1>4, <2>1, <2>2 DEF EffectInv, OneNotice
    <2>5. e \in PendingIds => (cancelled[e.op]' => pending'[e].reason # "None")
      BY <1>0, <1>2 DEF EffectInv, ReasonMatchesNotice, Unmarked
    <2>6. ReasonMatchesNotice(e)'
      BY <1>0, <1>2, <1>3, <1>8, <2>3, <2>5 DEF EffectInv, ReasonMatchesNotice
    <2> QED
      BY <1>0, <1>5, <1>6, <2>3, <2>4, <2>6 DEF EffectInv
  <1> QED
    BY <1>7, <1>8

LEMMA CancelNotice == ASSUME Inv, NEW o \in Operations, Cancel(o) PROVE NoticeInv'
  <1> DEFINE mine == {e \in EffectId : e.op = o}
  <1>1. /\ Mark(mine, "OperationCancelled")
        /\ outbox' = outbox \cup Records(mine, "OperationCancelled")
        /\ UNCHANGED <<emitted, published, channel, sending, threadVars>>
    BY DEF Cancel, wireVars
  <1>2. cancelled \in [Operations -> BOOLEAN] /\ cancelled' = [cancelled EXCEPT ![o] = TRUE]
    BY DEF Cancel, Inv, Inv1, TypeOK, LedgerType
  <1>3. \A e \in EffectId : cancelled'[e.op] => cancelled[e.op] \/ e \in mine
    BY <1>2, IsCurrent
  <1> HIDE DEF mine
  <1> QED
    BY <1>1, <1>3, MarkNotice DEF Reason

LEMMA ShutdownNotice == ASSUME Inv, Shutdown PROVE NoticeInv'
  <1>1. /\ Mark(EffectId, "ActorStopped")
        /\ outbox' = outbox \cup Records(EffectId, "ActorStopped")
        /\ UNCHANGED <<emitted, published, channel, sending, threadVars>>
    BY DEF Shutdown, wireVars
  <1> QED
    BY <1>1, MarkNotice DEF Reason

LEMMA EmitCancellationNotice == ASSUME Inv, NEW n \in outbox, EmitCancellation(n) PROVE NoticeInv'
  <1>0. /\ published' = [published EXCEPT ![n.effect] = Append(published[n.effect], n.reason)]
        /\ published \in [EffectId -> Seq(Reason)]
        /\ outbox' = outbox \ {n}
        /\ n.effect \in EffectId
        /\ UNCHANGED <<pending, cancelled, channel, sending, emitted, threadVars>>
        /\ UNCHANGED <<pc, at, mode, held>>
    BY DEF EmitCancellation, Publish, Inv, Inv1, TypeOK, HostType, Notice, ledgerVars, wireVars, threadVars
  <1>1. ASSUME NEW e \in EffectId, e # n.effect PROVE LedgerFrame(e) /\ RecordFrame(e)
    BY <1>0, <1>1 DEF LedgerFrame, RecordFrame
  <1>2. EffectInv(n.effect)'
    <2> DEFINE e == n.effect
    <2>0. EffectInv(e) /\ Current(e.op)' = Current(e.op) /\ (e \in PendingIds)' = (e \in PendingIds)
      BY <1>0 DEF Inv, NoticeInv, Current, PendingIds
    <2>1. Queued(e) /\ ~Announced(e) /\ ~HeldFor(e) /\ published[e] = <<>>
      BY <1>0, <2>0 DEF EffectInv, OneNotice, Queued, Announced
    <2>2. published'[e] = Append(<<>>, n.reason)
      BY <1>0, <2>1
    <2>3. Len(published'[e]) = 1 /\ published'[e] # <<>>
      BY <2>2
    <2>4. Announced(e)' /\ ~HeldFor(e)'
      BY <1>0, <2>0, <2>1, <2>3 DEF Announced, HeldFor
    <2>5. ~Queued(e)'
      BY <1>0, <2>0 DEF EffectInv, OneNotice, Queued
    <2>6. Notified(e) /\ Notified(e)' /\ e \in emitted
      BY <2>0, <2>1, <2>4 DEF Notified, EffectInv
    <2>7. OneNotice(e)'
      BY <1>0, <2>0, <2>3, <2>4, <2>5 DEF EffectInv, OneNotice
    <2>8. NotAhead(e)' /\ PendingIsCurrent(e)' /\ ResultTaken(e)'
      BY <1>0, <2>0 DEF EffectInv, NotAhead, PendingIsCurrent, ResultTaken
    <2>9. ReasonMatchesNotice(e)'
      BY <1>0, <2>0, <2>6 DEF EffectInv, ReasonMatchesNotice
    <2> QED
      BY <1>0, <2>6, <2>7, <2>8, <2>9 DEF EffectInv
  <1> QED
    BY <1>0, <1>1, <1>2, CallerNotice

\* A result takes its effect out of pending.
LEMMA TakenNotice ==
    ASSUME Inv, NEW e \in emitted, pending' = [pending EXCEPT ![e] = Absent],
           NEW result, sending' = sending \cup {[effect |-> e, result |-> result]},
           UNCHANGED <<cancelled, channel, emitted, outbox, published, threadVars>>
    PROVE  NoticeInv'
  <1>0. /\ e \in EffectId /\ pending \in [EffectId -> Slot]
        /\ UNCHANGED <<pc, at, mode, held>>
    BY DEF Inv, Inv1, TypeOK, HostType, LedgerType, threadVars
  <1>1. ASSUME NEW x \in EffectId, x # e PROVE LedgerFrame(x) /\ RecordFrame(x)
    BY <1>0, <1>1 DEF LedgerFrame, RecordFrame
  <1>2. EffectInv(e)'
    <2>0. EffectInv(e) /\ Current(e.op)' = Current(e.op)
      BY <1>0 DEF Inv, NoticeInv, Current
    <2>1. pending'[e] = Absent /\ ~(e \in PendingIds)' /\ pending'[e].reason = "None"
      BY <1>0 DEF PendingIds, Absent
    <2>2. PendingIsCurrent(e)' /\ ReasonMatchesNotice(e)' /\ ResultTaken(e)'
      BY <2>1 DEF PendingIsCurrent, ReasonMatchesNotice, ResultTaken
    <2>3. /\ Announced(e)' <=> Announced(e)
          /\ Queued(e)' <=> Queued(e)
          /\ HeldFor(e)' <=> HeldFor(e)
      BY <1>0, <2>0 DEF Announced, Queued, HeldFor
    <2>4. NotAhead(e)' /\ OneNotice(e)' /\ (Notified(e)' => e \in emitted')
      BY <1>0, <2>0, <2>3 DEF EffectInv, NotAhead, OneNotice, Notified
    <2> QED
      BY <2>2, <2>4 DEF EffectInv
  <1> QED
    BY <1>1, <1>2, CallerNotice

LEMMA DispatchNotice ==
    ASSUME Inv, NEW e \in emitted, NEW reply \in Replies, DispatchResult(e, reply)
    PROVE  NoticeInv'
  <1>0. UNCHANGED <<channel, emitted, outbox, published, threadVars>>
    BY DEF DispatchResult
  <1>1. CASE DispatchUnmatched(e, reply)
    <2>1. \A x \in EffectId : LedgerFrame(x) /\ RecordFrame(x)
      BY <1>0, <1>1 DEF DispatchUnmatched, LedgerFrame, RecordFrame, ledgerVars
    <2> QED
      BY <1>0, <2>1, CallerNotice
  <1>2. CASE DispatchLate(e, reply)
    BY <1>0, <1>2, TakenNotice DEF DispatchLate, Take
  <1>3. CASE DispatchAccepted(e, reply)
    BY <1>0, <1>3, TakenNotice DEF DispatchAccepted, Take
  <1> QED
    BY <1>1, <1>2, <1>3 DEF DispatchResult

LEMMA SendResultNotice == ASSUME Inv, NEW s \in sending, SendResult(s) PROVE NoticeInv'
  <1>0. /\ s.effect \in EffectId /\ channel \in [EffectId -> {"Empty", "Ok", "Rejected", "LateResult"}]
        /\ sending' = sending \ {s}
        /\ \/ channel' = [channel EXCEPT ![s.effect] = s.result]
           \/ channel' = channel
        /\ UNCHANGED <<pending, cancelled, emitted, outbox, published, threadVars>>
        /\ UNCHANGED <<pc, at, mode, held>>
    BY DEF SendResult, Inv, Inv1, TypeOK, WireType, ledgerVars, hostVars, threadVars
  <1>1. ASSUME NEW x \in EffectId, x # s.effect PROVE LedgerFrame(x) /\ RecordFrame(x)
    BY <1>0, <1>1 DEF LedgerFrame, RecordFrame
  <1>2. EffectInv(s.effect)'
    <2> DEFINE e == s.effect
    <2>0. /\ EffectInv(e) /\ Current(e.op)' = Current(e.op)
          /\ (e \in PendingIds)' = (e \in PendingIds)
      BY <1>0 DEF Inv, NoticeInv, Current, PendingIds
    <2>1. /\ Announced(e)' <=> Announced(e)
          /\ Queued(e)' <=> Queued(e)
          /\ HeldFor(e)' <=> HeldFor(e)
      BY <1>0, <2>0 DEF Announced, Queued, HeldFor
    <2>2. ResultTaken(e)'
      BY <1>0, <2>0 DEF EffectInv, ResultTaken
    <2>3. NotAhead(e)' /\ PendingIsCurrent(e)'
      BY <1>0, <2>0 DEF EffectInv, NotAhead, PendingIsCurrent
    <2>4. ReasonMatchesNotice(e)' /\ OneNotice(e)' /\ (Notified(e)' => e \in emitted')
      BY <1>0, <2>0, <2>1 DEF EffectInv, ReasonMatchesNotice, OneNotice, Notified
    <2> QED
      BY <2>2, <2>3, <2>4 DEF EffectInv
  <1> QED
    BY <1>0, <1>1, <1>2, CallerNotice

-----------------------------------------------------------------------------
LEMMA InitNotice == Init => NoticeInv
  <1> SUFFICES ASSUME Init PROVE NoticeInv
    OBVIOUS
  <1>1. ASSUME NEW o \in Operations PROVE ThreadInv(o)
    BY DEF Init, ThreadInv, StackOrdered, CallInProgress
  <1>2. ASSUME NEW e \in EffectId PROVE EffectInv(e)
    <2>1. /\ ~Announced(e) /\ ~Queued(e) /\ ~HeldFor(e)
          /\ e \notin PendingIds /\ pending[e].reason = "None"
      BY IsCurrent DEF Init, Announced, Queued, HeldFor, PendingIds, Absent
    <2>2. published[e] = <<>> /\ Len(published[e]) = 0
      BY DEF Init
    <2>3. OneNotice(e) /\ ~Notified(e)
      BY <2>1, <2>2 DEF OneNotice, Notified, Init
    <2>4. NotAhead(e) /\ PendingIsCurrent(e) /\ ReasonMatchesNotice(e) /\ ResultTaken(e)
      BY <2>1 DEF Init, NotAhead, PendingIsCurrent, ReasonMatchesNotice, ResultTaken
    <2> QED
      BY <2>3, <2>4 DEF EffectInv
  <1> QED
    BY <1>1, <1>2 DEF NoticeInv

LEMMA StepNotice == Inv /\ [Next]_vars => Inv'
  <1> SUFFICES ASSUME Inv, [Next]_vars PROVE NoticeInv'
    BY StepType DEF Inv
  <1>1. ASSUME NEW o \in Operations, NEW p \in Plans, Start(o, p) PROVE NoticeInv'
    <2>1. UNCHANGED <<at, mode, undo, held, pending, channel, cancelled>>
      BY <1>1 DEF Start, wireVars, hostVars
    <2>2. UNCHANGED <<emitted, sending, published, outbox>>
      BY <1>1 DEF Start, wireVars, hostVars
    <2> QED
      BY <1>1, <2>1, <2>2, MoveNotice DEF Start, Move
  <1>2. ASSUME NEW o \in Operations, DeadlineElapses(o) PROVE NoticeInv'
    <2>1. \A e \in EffectId : LedgerFrame(e) /\ RecordFrame(e)
      BY <1>2 DEF DeadlineElapses, LedgerFrame, RecordFrame, ledgerVars, hostVars
    <2> QED
      BY <1>2, <2>1, CallerNotice DEF DeadlineElapses, hostVars
  <1>3. CASE UNCHANGED vars
    <2>1. \A e \in EffectId : LedgerFrame(e) /\ RecordFrame(e)
      BY <1>3 DEF vars, LedgerFrame, RecordFrame, ledgerVars, wireVars, hostVars
    <2> QED
      BY <1>3, <2>1, CallerNotice DEF vars, hostVars
  <1> QED
    BY <1>1, <1>2, <1>3, ThreadStepNotice, CancelNotice, ShutdownNotice, EmitCancellationNotice,
       DispatchNotice, SendResultNotice DEF Next

LEMMA Inductive == Spec => []Inv
  BY InitType, InitNotice, StepNotice, PTL DEF Spec, Inv

\* However cancels, shutdowns, deferred cancellations and deadlines race, the
\* host is told at most once that an effect is cancelled, and not before it was
\* sent the request.
THEOREM OneRecordAfterRequest == Spec => []OneNoticeAfterRequest
  <1>1. Inv => AtMostOneNotice
    BY DEF Inv, NoticeInv, EffectInv, OneNotice, AtMostOneNotice
  <1>2. Inv => NoticeFollowsRequest
    BY DEF Inv, NoticeInv, EffectInv, NoticeFollowsRequest
  <1>3. Inv => OneNoticeAfterRequest
    BY <1>1, <1>2 DEF OneNoticeAfterRequest
  <1> QED
    BY <1>3, Inductive, PTL

\* Every effect the host holds for a cancelled or stopped operation is recalled.
THEOREM CancellationsReachTheHost == Spec => []CancelReachesHost
  <1>1. ASSUME Inv, NEW e \in PendingIds, cancelled[e.op]
        PROVE  IF pending[e].phase = "Dispatched" THEN Notified(e)
                                                  ELSE pending[e].reason # "None"
    <2>1. ReasonMatchesNotice(e)
      BY <1>1 DEF Inv, NoticeInv, EffectInv, PendingIds
    <2> QED
      BY <1>1, <2>1 DEF ReasonMatchesNotice
  <1>2. Inv => CancelReachesHost
    BY <1>1 DEF CancelReachesHost
  <1> QED
    BY <1>2, Inductive, PTL

-----------------------------------------------------------------------------
(* Compensations: the inductive invariant                                  *)

Ended == {"Finish", "Leave", "Done"}

OnStack(o, i) == \E k \in DOMAIN undo[o] : undo[o][k] = i

\* The compensation of a step that needs one is settled, kept on the stack or
\* about to be settled or kept, unless the operation succeeded.
Accounted(o, i) ==
    NeedsUndo(o, i) =>
        \/ Settled(o, i)
        \/ OnStack(o, i)
        \/ pc[o] \in Running /\ at[o] = i
        \/ pc[o] \in Ended /\ failure[o] = "None"

\* A thread goes forward until a step fails, and then ends with an empty stack.
Direction(o) ==
    /\ pc[o] \in {"New", "Spawning", "StepCheck"} => mode[o] = "Forward"
    /\ mode[o] = "Forward" /\ pc[o] \notin Ended => failure[o] = "None"
    /\ mode[o] = "Reverse" => failure[o] # "None"
    /\ pc[o] \in Ended /\ failure[o] # "None" => undo[o] = <<>>

CompInv(o) == Direction(o) /\ \A i \in DOMAIN plan[o] : Accounted(o, i)

\* What the record of a thread consists of, and what has become of its effects.
LocalFrame(o) ==
    /\ pc'[o] = pc[o] /\ at'[o] = at[o] /\ mode'[o] = mode[o] /\ undo'[o] = undo[o]
    /\ undone'[o] = undone[o] /\ undoFailed'[o] = undoFailed[o] /\ failure'[o] = failure[o]
    /\ plan'[o] = plan[o]

\* A step of o's plan that needs a compensation after a step did so before.
NothingNew(o) == \A i \in DOMAIN plan[o] : NeedsUndo(o, i)' => NeedsUndo(o, i)

LEMMA ForwardIsEffect ==
    ASSUME TypeOK, NEW o \in Operations, NEW i \in DOMAIN plan[o]
    PROVE  Forward(o, i) \in EffectId /\ Reverse(o, i) \in EffectId
  <1>1. i \in 1..MaxSteps
    BY PlansAreShort, CapacityAssumption
  <1> QED
    BY <1>1 DEF Forward, Reverse, EffectId

LEMMA UntouchedIsNothingNew ==
    ASSUME NEW o, plan'[o] = plan[o],
           \A i \in DOMAIN plan[o] : Forward(o, i) \in emitted' => Forward(o, i) \in emitted,
           \A i \in DOMAIN plan[o] : channel'[Forward(o, i)] = channel[Forward(o, i)]
    PROVE  NothingNew(o)
  BY DEF NothingNew, NeedsUndo, Forward

LEMMA CompFramed ==
    ASSUME NEW o, CompInv(o), LocalFrame(o),
           \A i \in DOMAIN plan[o] :
              NeedsUndo(o, i)' => NeedsUndo(o, i) \/ (pc[o] \in Running /\ at[o] = i)
    PROVE  CompInv(o)'
  BY DEF CompInv, LocalFrame, Direction, Accounted, Settled, OnStack

\* Before its thread starts, an operation has sent nothing.
LEMMA NothingSent ==
    ASSUME Inv, NEW o \in Operations, pc[o] \in {"New", "Spawning"},
           NEW e \in EffectId, e.op = o
    PROVE  e \notin emitted
  BY DEF Inv, NoticeInv, EffectInv, NotAhead

\* The current step is not sent before it is admitted.
LEMMA NotYetSent ==
    ASSUME Inv, NEW o \in Operations, pc[o] = "StepCheck", Current(o) \in EffectId
    PROVE  Current(o) \notin emitted
  BY IsCurrent DEF Inv, NoticeInv, EffectInv, NotAhead, Current

-----------------------------------------------------------------------------
(* Compensations: the steps of a thread                                    *)

\* The labels between which a thread moves inside a step, or past its end.
Inside == {<<"StepCheck", "Admit">>, <<"Admit", "Emit">>, <<"Emit", "Mark">>, <<"Mark", "Recall">>,
           <<"Recall", "Wait">>, <<"Wait", "Expired">>, <<"Expired", "DeadlineNotice">>,
           <<"Finish", "Leave">>, <<"Leave", "Done">>}

LEMMA InsideAccounts ==
    ASSUME Inv, NEW o \in Operations, CompInv(o),
           NEW label, Goto(o, label), <<pc[o], label>> \in Inside,
           UNCHANGED <<at, mode, undo, undone, undoFailed, failure, plan>>,
           \A i \in DOMAIN plan[o] :
              NeedsUndo(o, i)' => NeedsUndo(o, i) \/ (label \in Running /\ at[o] = i)
    PROVE  CompInv(o)'
  <1>1. pc'[o] = label
    BY DEF Goto, Inv, Inv1, TypeOK, ThreadType
  <1>2. Direction(o)'
    BY <1>1 DEF CompInv, Direction, Inside, Ended
  <1>3. \A i \in DOMAIN plan[o] : Accounted(o, i)'
    BY <1>1 DEF CompInv, Accounted, Settled, OnStack, Inside, Ended, Running, Pc
  <1> QED
    BY <1>2, <1>3 DEF CompInv

\* The thread is started, or cannot be: nothing was sent yet.
LEMMA StartingAccounts ==
    ASSUME Inv, NEW o \in Operations, CompInv(o),
           NEW label, Goto(o, label),
           <<pc[o], label>> \in {<<"New", "Spawning">>, <<"Spawning", "StepCheck">>,
                                 <<"Spawning", "Finish">>, <<"Spawning", "Done">>},
           UNCHANGED <<at, mode, undo, undone, undoFailed, emitted>>,
           failure'[o] = failure[o] \/ label \in Ended,
           plan'[o] = plan[o] \/ plan'[o] \in Plans
    PROVE  CompInv(o)'
  <1>1. pc'[o] = label
    BY DEF Goto, Inv, Inv1, TypeOK, ThreadType
  <1>2. undo[o] = <<>> /\ mode[o] = "Forward"
    BY DEF Inv, Inv1, InPlan
  <1>3. Direction(o)'
    BY <1>1, <1>2 DEF CompInv, Direction, Ended
  <1>4. ASSUME NEW i \in DOMAIN plan'[o] PROVE ~NeedsUndo(o, i)'
    <2>1. plan'[o] \in Seq(Step) /\ Len(plan'[o]) \in 0..MaxSteps
      <3>1. CASE plan'[o] = plan[o]
        BY <3>1, PlansAreShort DEF Inv, Inv1
      <3>2. CASE plan'[o] \in Plans
        BY <3>2, PlanAssumption, CapacityAssumption
      <3> QED
        BY <3>1, <3>2
    <2>2. i \in 1..MaxSteps
      BY <2>1, CapacityAssumption
    <2>3. Forward(o, i) \in EffectId /\ Forward(o, i).op = o
      BY <2>2 DEF Forward, EffectId
    <2>4. Forward(o, i) \notin emitted
      BY <2>3, NothingSent
    <2> QED
      BY <2>4 DEF NeedsUndo, Forward
  <1> QED
    BY <1>3, <1>4 DEF CompInv, Accounted

\* What becomes of the compensations on a stack that is unwound.
LEMMA UnwindAccounts ==
    ASSUME Inv, NEW o \in Operations, NEW stack, StackOf(o, stack), Unwind(o, stack)
    PROVE  /\ \A k \in DOMAIN stack :
                 \/ \E j \in DOMAIN undo'[o] : undo'[o][j] = stack[k]
                 \/ pc'[o] = "Admit" /\ at'[o] = stack[k]
           /\ \/ pc'[o] = "Finish" /\ undo'[o] = <<>> /\ mode'[o] = mode[o]
              \/ pc'[o] = "Admit" /\ mode'[o] = "Reverse"
  <1>0. ThreadType /\ stack \in Seq(Nat \ {0})
    BY DEF Inv, Inv1, TypeOK, StackOf
  <1>1. CASE stack = <<>>
    <2>1. /\ pc' = [pc EXCEPT ![o] = "Finish"]
          /\ undo' = [undo EXCEPT ![o] = <<>>]
          /\ mode' = mode
      BY <1>1 DEF Unwind, Goto
    <2>2. pc'[o] = "Finish" /\ undo'[o] = <<>> /\ mode'[o] = mode[o]
      BY <1>0, <2>1 DEF ThreadType
    <2>3. DOMAIN stack = {}
      BY <1>1
    <2> QED
      BY <2>2, <2>3
  <1>2. CASE stack # <<>>
    <2> DEFINE rest == SubSeq(stack, 1, Len(stack) - 1)
    <2>1. /\ pc'[o] = "Admit" /\ mode'[o] = "Reverse"
          /\ at'[o] = stack[Len(stack)] /\ undo'[o] = rest
      BY <1>0, <1>2 DEF Unwind, Goto, Newest, ThreadType
    <2>2. /\ DOMAIN rest = 1..(Len(stack) - 1)
          /\ \A k \in DOMAIN rest : rest[k] = stack[k]
          /\ DOMAIN stack = 1..Len(stack) /\ Len(stack) \in Nat
      BY <1>0, <1>2
    <2> HIDE DEF rest
    <2>3. ASSUME NEW k \in DOMAIN stack, k # Len(stack)
          PROVE  \E j \in DOMAIN undo'[o] : undo'[o][j] = stack[k]
      <3>1. k \in DOMAIN rest
        BY <2>2, <2>3
      <3> QED
        BY <2>1, <2>2, <3>1
    <2> QED
      BY <2>1, <2>3
  <1> QED
    BY <1>1, <1>2

\* A forward step fails: its compensation is kept, or it needs none.
LEMMA FailAccounts ==
    ASSUME Inv, NEW o \in Operations, CompInv(o), pc[o] \in Running, mode[o] = "Forward",
           NEW why \in Failure \ {"None"}, NEW retain \in BOOLEAN, Fail(o, why, retain),
           retain \/ ~NeedsUndo(o, at[o]), UNCHANGED <<plan, emitted, channel>>
    PROVE  CompInv(o)'
  <1> DEFINE stack == IF retain THEN Pushed(o) ELSE undo[o]
  <1>1. /\ failure'[o] = why
        /\ Unwind(o, stack)
        /\ undone' = undone /\ undoFailed' = undoFailed
    BY DEF Fail, Inv, Inv1, TypeOK, ThreadType
  <1>2. StackOf(o, stack)
    <2>1. StackOf(o, undo[o])
      BY DEF Inv, Inv1, TypeOK, ThreadType, InPlan, StackOf
    <2> QED
      BY <2>1, PushedType DEF Inv
  <1>3. ASSUME NEW i \in DOMAIN plan[o], NeedsUndo(o, i), OnStack(o, i) \/ at[o] = i
        PROVE  \E k \in DOMAIN stack : stack[k] = i
    <2>0. undo[o] \in Seq(Nat \ {0}) /\ at[o] \in Nat \ {0}
      BY DEF Inv, Inv1, TypeOK, ThreadType
    <2>1. CASE ~retain
      <3>1. OnStack(o, i)
        BY <1>3, <2>1
      <3> QED
        BY <2>1, <3>1 DEF OnStack
    <2>2. CASE retain /\ CurrentStep(o).undo = "None"
      <3>1. at[o] # i
        BY <1>3, <2>2 DEF NeedsUndo, CurrentStep
      <3> QED
        BY <1>3, <2>2, <3>1 DEF OnStack, Pushed
    <2>3. CASE retain /\ CurrentStep(o).undo # "None"
      <3>1. stack = Append(undo[o], at[o])
        BY <2>3 DEF Pushed
      <3>2. /\ DOMAIN Append(undo[o], at[o]) = 1..(Len(undo[o]) + 1) /\ Len(undo[o]) \in Nat
            /\ Append(undo[o], at[o])[Len(undo[o]) + 1] = at[o]
            /\ \A k \in DOMAIN undo[o] : Append(undo[o], at[o])[k] = undo[o][k]
            /\ DOMAIN undo[o] = 1..Len(undo[o])
        BY <2>0
      <3> HIDE DEF stack
      <3>3. CASE at[o] = i
        BY <3>1, <3>2, <3>3
      <3>4. CASE OnStack(o, i)
        <4>1. PICK k \in DOMAIN undo[o] : undo[o][k] = i
          BY <3>4 DEF OnStack
        <4>2. k \in DOMAIN stack /\ stack[k] = i
          BY <3>1, <3>2, <4>1
        <4> QED
          BY <4>2
      <3> QED
        BY <1>3, <3>3, <3>4
    <2> QED
      BY <2>1, <2>2, <2>3
  <1> HIDE DEF stack
  <1>4. /\ \A k \in DOMAIN stack :
              \/ \E j \in DOMAIN undo'[o] : undo'[o][j] = stack[k]
              \/ pc'[o] = "Admit" /\ at'[o] = stack[k]
        /\ \/ pc'[o] = "Finish" /\ undo'[o] = <<>> /\ mode'[o] = mode[o]
           \/ pc'[o] = "Admit" /\ mode'[o] = "Reverse"
    BY <1>1, <1>2, UnwindAccounts
  <1>5. Direction(o)'
    BY <1>1, <1>4 DEF Direction, Ended
  <1>6. ASSUME NEW i \in DOMAIN plan[o] PROVE Accounted(o, i)'
    <2>1. NeedsUndo(o, i)' => NeedsUndo(o, i)
      BY DEF NeedsUndo, Forward
    <2>2. NeedsUndo(o, i) => Settled(o, i) \/ OnStack(o, i) \/ at[o] = i
      BY DEF CompInv, Accounted, Running, Ended
    <2>3. Settled(o, i)' <=> Settled(o, i)
      BY <1>1 DEF Settled
    <2> QED
      BY <1>3, <1>4, <2>1, <2>2, <2>3 DEF Accounted, OnStack, Running, Pc
  <1> QED
    BY <1>5, <1>6 DEF CompInv

\* A compensation ends, well or not: it is on record.
LEMMA EndUndoAccounts ==
    ASSUME Inv, NEW o \in Operations, CompInv(o), pc[o] \in Running, mode[o] = "Reverse",
           NEW ok, EndUndo(o, ok), UNCHANGED <<plan, emitted, channel>>
    PROVE  CompInv(o)'
  <1>1. /\ failure' = failure
        /\ Unwind(o, undo[o])
        /\ \/ undone' = [undone EXCEPT ![o] = @ \cup {at[o]}] /\ undoFailed' = undoFailed
           \/ undoFailed' = [undoFailed EXCEPT ![o] = @ \cup {at[o]}] /\ undone' = undone
    BY DEF EndUndo
  <1>2. StackOf(o, undo[o])
    BY DEF Inv, Inv1, TypeOK, ThreadType, InPlan, StackOf
  <1>3. /\ \A k \in DOMAIN undo[o] :
              \/ \E j \in DOMAIN undo'[o] : undo'[o][j] = undo[o][k]
              \/ pc'[o] = "Admit" /\ at'[o] = undo[o][k]
        /\ \/ pc'[o] = "Finish" /\ undo'[o] = <<>> /\ mode'[o] = mode[o]
           \/ pc'[o] = "Admit" /\ mode'[o] = "Reverse"
    BY <1>1, <1>2, UnwindAccounts
  <1>4. Direction(o)'
    BY <1>1, <1>3 DEF CompInv, Direction, Ended
  <1>5. /\ at[o] \in (undone'[o] \cup undoFailed'[o])
        /\ (undone[o] \cup undoFailed[o]) \subseteq (undone'[o] \cup undoFailed'[o])
    BY <1>1 DEF Inv, Inv1, TypeOK, ThreadType
  <1>6. ASSUME NEW i \in DOMAIN plan[o] PROVE Accounted(o, i)'
    <2>1. NeedsUndo(o, i)' => NeedsUndo(o, i)
      BY DEF NeedsUndo, Forward
    <2>2. NeedsUndo(o, i) => Settled(o, i) \/ OnStack(o, i) \/ at[o] = i
      BY DEF CompInv, Accounted, Running, Ended
    <2>3. Settled(o, i) \/ at[o] = i => Settled(o, i)'
      BY <1>5 DEF Settled
    <2>4. OnStack(o, i) => OnStack(o, i)' \/ (pc'[o] = "Admit" /\ at'[o] = i)
      BY <1>3 DEF OnStack
    <2> QED
      BY <2>1, <2>2, <2>3, <2>4 DEF Accounted, Running, Pc
  <1> QED
    BY <1>4, <1>6 DEF CompInv

\* A forward step succeeded: its compensation is kept.
LEMMA AdvanceAccounts ==
    ASSUME Inv, NEW o \in Operations, CompInv(o), pc[o] \in Running, mode[o] = "Forward",
           Advance(o), UNCHANGED <<plan, emitted, channel>>
    PROVE  CompInv(o)'
  <1>1. /\ undo'[o] = Pushed(o) /\ mode'[o] = mode[o]
        /\ failure' = failure /\ undone' = undone /\ undoFailed' = undoFailed
        /\ pc'[o] \in {"Finish", "StepCheck"}
    BY DEF Advance, Goto, Inv, Inv1, TypeOK, ThreadType
  <1>2. failure[o] = "None"
    BY DEF CompInv, Direction, Running, Ended
  <1>3. Direction(o)'
    BY <1>1, <1>2 DEF Direction, Ended
  <1>4. undo[o] \in Seq(Nat \ {0}) /\ at[o] \in Nat \ {0}
    BY DEF Inv, Inv1, TypeOK, ThreadType
  <1>5. ASSUME NEW i \in DOMAIN plan[o] PROVE Accounted(o, i)'
    <2>1. NeedsUndo(o, i)' => NeedsUndo(o, i)
      BY DEF NeedsUndo, Forward
    <2>2. NeedsUndo(o, i) => Settled(o, i) \/ OnStack(o, i) \/ at[o] = i
      BY DEF CompInv, Accounted, Running, Ended
    <2>3. Settled(o, i)' <=> Settled(o, i)
      BY <1>1 DEF Settled
    <2>4. CASE CurrentStep(o).undo = "None"
      <3>1. NeedsUndo(o, i) => at[o] # i
        BY <2>4 DEF NeedsUndo, CurrentStep
      <3>2. OnStack(o, i)' <=> OnStack(o, i)
        BY <1>1, <2>4 DEF OnStack, Pushed
      <3> QED
        BY <2>1, <2>2, <2>3, <3>1, <3>2 DEF Accounted
    <2>5. CASE CurrentStep(o).undo # "None"
      <3>1. undo'[o] = Append(undo[o], at[o])
        BY <1>1, <2>5 DEF Pushed
      <3>2. /\ DOMAIN undo'[o] = 1..(Len(undo[o]) + 1) /\ Len(undo[o]) \in Nat
            /\ undo'[o][Len(undo[o]) + 1] = at[o]
            /\ \A k \in DOMAIN undo[o] : undo'[o][k] = undo[o][k]
            /\ DOMAIN undo[o] = 1..Len(undo[o])
        BY <1>4, <3>1
      <3>3. OnStack(o, i) \/ at[o] = i => OnStack(o, i)'
        <4>1. CASE at[o] = i
          BY <3>2, <4>1 DEF OnStack
        <4>2. CASE OnStack(o, i)
          <5>1. PICK k \in DOMAIN undo[o] : undo[o][k] = i
            BY <4>2 DEF OnStack
          <5>2. k \in DOMAIN undo'[o] /\ undo'[o][k] = i
            BY <3>2, <5>1
          <5> QED
            BY <5>2 DEF OnStack
        <4> QED
          BY <4>1, <4>2
      <3> QED
        BY <2>1, <2>2, <2>3, <3>3 DEF Accounted
    <2> QED
      BY <2>4, <2>5
  <1> QED
    BY <1>3, <1>5 DEF CompInv

\* execute_effect ends, well or not.
LEMMA OutcomeAccounts ==
    ASSUME Inv, NEW o \in Operations, CompInv(o), pc[o] \in Running,
           \/ \E result \in {"Ok", "Rejected", "LateResult"} :
                 Returned(o, result) /\ channel[Current(o)] = result
           \/ \E why \in Failure \ {"None"} : Errored(o, why),
           UNCHANGED <<plan, emitted, channel>>
    PROVE  CompInv(o)'
  <1>1. ASSUME NEW result \in {"Ok", "Rejected", "LateResult"}, Returned(o, result),
               channel[Current(o)] = result
        PROVE  CompInv(o)'
    <2>1. CASE mode[o] = "Forward" /\ result = "Ok" /\ Advance(o)
      BY <2>1, AdvanceAccounts
    <2>2. CASE mode[o] = "Forward" /\ result # "Ok" /\ Fail(o, result, CurrentStep(o).onReject)
      <3>1. plan[o] \in Seq(Step) /\ at[o] \in 1..Len(plan[o])
        BY PlansAreShort DEF Inv, Inv1, InPlan
      <3>2. CurrentStep(o) \in Step
        BY <3>1 DEF CurrentStep
      <3>3. CurrentStep(o).onReject \in BOOLEAN
        BY <3>2 DEF Step
      <3>4. Current(o) = Forward(o, at[o])
        BY <2>2 DEF Current, Forward
      <3>5. CurrentStep(o).onReject \/ ~NeedsUndo(o, at[o])
        BY <1>1, <2>2, <3>4 DEF NeedsUndo, CurrentStep
      <3> QED
        BY <1>1, <2>2, <3>3, <3>5, FailAccounts DEF Failure
    <2>3. CASE mode[o] = "Reverse" /\ EndUndo(o, result = "Ok")
      BY <2>3, EndUndoAccounts
    <2> QED
      BY <1>1, <2>1, <2>2, <2>3 DEF Returned
  <1>2. ASSUME NEW why \in Failure \ {"None"}, Errored(o, why)
        PROVE  CompInv(o)'
    BY <1>2, FailAccounts, EndUndoAccounts DEF Errored
  <1> QED
    BY <1>1, <1>2

\* A step of thread o leaves the records of the other threads alone; it sends
\* effects of its own only, and takes no result out of a channel.
LEMMA ThreadIsLocal ==
    ASSUME Inv, NEW o \in Operations, Thread(o)
    PROVE  /\ plan' = plan /\ channel' = channel
           /\ \A x \in Operations \ {o} : LocalFrame(x)
           /\ \A e \in emitted' : e \in emitted \/ (e = Current(o) /\ pc[o] = "Emit" /\ Emit(o))
  <1>0. /\ pc \in [Operations -> Pc] /\ at \in [Operations -> Nat \ {0}]
        /\ mode \in [Operations -> {"Forward", "Reverse"}]
        /\ undo \in [Operations -> Seq(Nat \ {0})]
        /\ undone \in [Operations -> SUBSET (1..MaxSteps)]
        /\ undoFailed \in [Operations -> SUBSET (1..MaxSteps)]
        /\ failure \in [Operations -> Failure]
    BY DEF Inv, Inv1, TypeOK, ThreadType
  <1>1. CASE Spawn(o)
    BY <1>0, <1>1 DEF Spawn, Goto, LocalFrame, hostVars, wireVars
  <1>2. CASE RuntimeFails(o)
    BY <1>0, <1>2 DEF RuntimeFails, Goto, LocalFrame, hostVars, wireVars
  <1>3. CASE SpawnFails(o)
    BY <1>0, <1>3 DEF SpawnFails, Goto, LocalFrame, hostVars, wireVars
  <1>4. CASE Admit(o)
    BY <1>0, <1>4 DEF Admit, Goto, LocalFrame, hostVars, wireVars
  <1>5. CASE Emit(o)
    BY <1>0, <1>5 DEF Emit, Goto, LocalFrame, hostVars, wireVars
  <1>6. CASE MarkDispatched(o)
    BY <1>0, <1>6 DEF MarkDispatched, Goto, LocalFrame, hostVars, wireVars
  <1>7. CASE Recall(o)
    BY <1>0, <1>7 DEF Recall, Goto, LocalFrame, wireVars
  <1>8. CASE TimerFires(o)
    BY <1>0, <1>8 DEF TimerFires, Goto, LocalFrame, hostVars, wireVars
  <1>9. CASE Expire(o)
    BY <1>0, <1>9 DEF Expire, Goto, LocalFrame, hostVars, wireVars
  <1>10. CASE Finish(o)
    BY <1>0, <1>10 DEF Finish, Goto, LocalFrame, hostVars, wireVars
  <1>11. CASE Leave(o)
    BY <1>0, <1>11 DEF Leave, Goto, LocalFrame, hostVars, wireVars
  <1>12. CASE CheckCancelled(o) \/ Refuse(o) \/ Receive(o) \/ NotifyDeadline(o)
    <2>1. /\ plan' = plan /\ channel' = channel /\ emitted' = emitted
      BY <1>12 DEF CheckCancelled, Refuse, Receive, NotifyDeadline, wireVars, hostVars
    <2>2. \/ Goto(o, "Admit") /\ UNCHANGED <<at, mode, undo, undone, undoFailed, failure>>
          \/ \E why, retain : Fail(o, why, retain)
          \/ \E ok : EndUndo(o, ok)
          \/ Advance(o)
      BY <1>12 DEF CheckCancelled, Refuse, Receive, NotifyDeadline, Returned, Errored
    <2>3. ASSUME NEW stack, Unwind(o, stack)
          PROVE  \A x \in Operations \ {o} :
                    pc'[x] = pc[x] /\ at'[x] = at[x] /\ mode'[x] = mode[x] /\ undo'[x] = undo[x]
      BY <1>0, <2>3 DEF Unwind, Goto
    <2>4. ASSUME NEW why, NEW retain, Fail(o, why, retain)
          PROVE  \A x \in Operations \ {o} : LocalFrame(x)
      BY <1>0, <2>1, <2>3, <2>4 DEF Fail, LocalFrame
    <2>5. ASSUME NEW ok, EndUndo(o, ok)
          PROVE  \A x \in Operations \ {o} : LocalFrame(x)
      BY <1>0, <2>1, <2>3, <2>5 DEF EndUndo, LocalFrame
    <2>6. ASSUME Advance(o)
          PROVE  \A x \in Operations \ {o} : LocalFrame(x)
      BY <1>0, <2>1, <2>6 DEF Advance, Goto, LocalFrame
    <2>7. ASSUME Goto(o, "Admit"), UNCHANGED <<at, mode, undo, undone, undoFailed, failure>>
          PROVE  \A x \in Operations \ {o} : LocalFrame(x)
      BY <1>0, <2>1, <2>7 DEF Goto, LocalFrame
    <2> QED
      BY <2>1, <2>2, <2>4, <2>5, <2>6, <2>7
  <1> QED
    BY <1>1, <1>2, <1>3, <1>4, <1>5, <1>6, <1>7, <1>8, <1>9, <1>10, <1>11, <1>12 DEF Thread

LEMMA ThreadAccounts ==
    ASSUME Inv, \A x \in Operations : CompInv(x), NEW o \in Operations, Thread(o)
    PROVE  \A x \in Operations : CompInv(x)'
  <1>0. /\ plan' = plan /\ channel' = channel
        /\ \A x \in Operations \ {o} : LocalFrame(x)
        /\ \A e \in emitted' : e \in emitted \/ (e = Current(o) /\ pc[o] = "Emit" /\ Emit(o))
    BY ThreadIsLocal
  <1>1. ASSUME NEW x \in Operations, x # o PROVE CompInv(x)'
    <2>1. \A i \in DOMAIN plan[x] : NeedsUndo(x, i)' => NeedsUndo(x, i)
      <3>1. \A i : Forward(x, i) # Current(o)
        BY <1>1 DEF Forward, Current
      <3> QED
        BY <1>0, <3>1 DEF NeedsUndo, Forward
    <2> QED
      BY <1>0, <1>1, <2>1, CompFramed
  <1>2. ASSUME emitted' \subseteq emitted, NEW i \in DOMAIN plan[o], NeedsUndo(o, i)'
        PROVE  NeedsUndo(o, i)
    BY <1>0, <1>2 DEF NeedsUndo, Forward
  <1>3. CompInv(o)'
    <2>1. CASE Spawn(o) \/ RuntimeFails(o) \/ SpawnFails(o)
      <3>1. /\ UNCHANGED <<at, mode, undo, undone, undoFailed, emitted, plan>>
            /\ \E label : /\ Goto(o, label)
                          /\ <<pc[o], label>> \in {<<"New", "Spawning">>, <<"Spawning", "StepCheck">>,
                                 <<"Spawning", "Finish">>, <<"Spawning", "Done">>}
                          /\ failure' = failure \/ label \in Ended
        BY <2>1 DEF Spawn, RuntimeFails, SpawnFails, hostVars, Ended
      <3> QED
        BY <3>1, StartingAccounts
    <2>2. CASE Admit(o) \/ MarkDispatched(o) \/ Recall(o) \/ TimerFires(o) \/ Expire(o) \/ Finish(o) \/ Leave(o)
      <3>1. /\ UNCHANGED <<at, mode, undo, undone, undoFailed, failure, plan, emitted>>
            /\ \E label : Goto(o, label) /\ <<pc[o], label>> \in Inside
        BY <2>2 DEF Admit, MarkDispatched, Recall, TimerFires, Expire, Finish, Leave, hostVars, Inside
      <3> QED
        BY <1>2, <3>1, InsideAccounts
    <2>3. CASE Emit(o)
      <3>1. /\ UNCHANGED <<at, mode, undo, undone, undoFailed, failure, plan>>
            /\ Goto(o, "Mark") /\ <<pc[o], "Mark">> \in Inside
            /\ emitted' = emitted \cup {Current(o)}
        BY <2>3 DEF Emit, Inside
      <3>2. ASSUME NEW i \in DOMAIN plan[o], NeedsUndo(o, i)', at[o] # i PROVE NeedsUndo(o, i)
        <4>1. Forward(o, i) # Current(o)
          BY <3>2 DEF Forward, Current
        <4> QED
          BY <1>0, <3>1, <3>2, <4>1 DEF NeedsUndo, Forward
      <3> QED
        BY <3>1, <3>2, InsideAccounts DEF Running, Pc
    <2>4. CASE CheckCancelled(o)
      <3>1. UNCHANGED <<plan, emitted, channel>> /\ pc[o] = "StepCheck"
        BY <2>4 DEF CheckCancelled, wireVars, hostVars
      <3>2. CASE cancelled[o]
        <4>1. mode[o] = "Forward" /\ Current(o) \in EffectId
          BY <3>1, CurrentIsEffect DEF CompInv, Direction, Inv, Running, Pc
        <4>2. Forward(o, at[o]) \notin emitted
          BY <3>1, <4>1, NotYetSent DEF Current, Forward
        <4>3. ~NeedsUndo(o, at[o])
          BY <4>2 DEF NeedsUndo
        <4>4. pc[o] \in Running /\ Fail(o, "Cancelled", FALSE)
          BY <2>4, <3>1, <3>2 DEF CheckCancelled, Running, Pc
        <4> QED
          BY <3>1, <4>1, <4>3, <4>4, FailAccounts DEF Failure
      <3>3. CASE ~cancelled[o]
        <4>1. /\ UNCHANGED <<at, mode, undo, undone, undoFailed, failure, plan, emitted>>
              /\ Goto(o, "Admit") /\ <<pc[o], "Admit">> \in Inside
          BY <2>4, <3>1, <3>3 DEF CheckCancelled, Inside
        <4> QED
          BY <1>2, <4>1, InsideAccounts
      <3> QED
        BY <3>2, <3>3
    <2>5. CASE Refuse(o)
      <3>1. /\ UNCHANGED <<plan, emitted, channel>> /\ pc[o] \in Running
            /\ Errored(o, Refusal(o)) /\ Refusal(o) \in Failure \ {"None"}
        BY <2>5 DEF Refuse, Refusal, Failure, wireVars, hostVars, Running, Pc
      <3> QED
        BY <3>1, OutcomeAccounts
    <2>6. CASE Receive(o)
      <3>1. /\ UNCHANGED <<plan, emitted, channel>> /\ pc[o] \in Running
            /\ Returned(o, channel[Current(o)])
        BY <2>6 DEF Receive, wireVars, hostVars, Running, Pc
      <3>2. channel[Current(o)] \in {"Ok", "Rejected", "LateResult"}
        BY <2>6, <3>1, CurrentIsEffect DEF Receive, Inv, Inv1, TypeOK, WireType
      <3> QED
        BY <3>1, <3>2, OutcomeAccounts
    <2>7. CASE NotifyDeadline(o)
      <3>1. /\ UNCHANGED <<plan, emitted, channel>> /\ pc[o] \in Running
            /\ Errored(o, "Timeout")
        BY <2>7 DEF NotifyDeadline, wireVars, Running, Pc
      <3> QED
        BY <3>1, OutcomeAccounts DEF Failure
    <2> QED
      BY <2>1, <2>2, <2>3, <2>4, <2>5, <2>6, <2>7 DEF Thread
  <1> QED
    BY <1>1, <1>3

-----------------------------------------------------------------------------
(* Compensations: the callers, and the theorems                            *)

\* A result reaches a thread only while it listens for it.
LEMMA SendResultAccounts ==
    ASSUME Inv, NEW s \in sending, SendResult(s), NEW o \in Operations, CompInv(o)
    PROVE  CompInv(o)'
  <1>1. /\ UNCHANGED <<plan, emitted>> /\ LocalFrame(o)
        /\ \/ channel' = channel
           \/ Listening(s.effect) /\ channel' = [channel EXCEPT ![s.effect] = s.result]
    BY DEF SendResult, hostVars, threadVars, LocalFrame
  <1>2. ASSUME NEW i \in DOMAIN plan[o], NeedsUndo(o, i)', ~NeedsUndo(o, i)
        PROVE  pc[o] \in Running /\ at[o] = i
    <2> DEFINE e == Forward(o, i)
    <2>0. e \in EffectId /\ channel \in [EffectId -> {"Empty", "Ok", "Rejected", "LateResult"}]
      BY ForwardIsEffect DEF Inv, Inv1, TypeOK, WireType
    <2>1. channel'[e] # channel[e]
      BY <1>1, <1>2 DEF NeedsUndo, Forward
    <2>2. Listening(s.effect) /\ s.effect = Forward(o, i)
      BY <1>1, <2>0, <2>1
    <2> QED
      BY <2>2 DEF Listening, Forward, Current, Running, Pc
  <1> QED
    BY <1>1, <1>2, CompFramed

LEMMA StepAccounts ==
    ASSUME Inv, \A o \in Operations : CompInv(o), [Next]_vars
    PROVE  \A o \in Operations : CompInv(o)'
  <1>1. ASSUME UNCHANGED threadVars, UNCHANGED <<emitted, channel>>, NEW o \in Operations
        PROVE  CompInv(o)'
    <2>1. LocalFrame(o)
      BY <1>1 DEF threadVars, LocalFrame
    <2>2. \A i \in DOMAIN plan[o] : NeedsUndo(o, i)' => NeedsUndo(o, i)
      BY <1>1 DEF threadVars, NeedsUndo, Forward
    <2> QED
      BY <2>1, <2>2, CompFramed
  <1>2. ASSUME NEW o \in Operations, NEW p \in Plans, Start(o, p), NEW x \in Operations
        PROVE  CompInv(x)'
    <2>1. /\ Goto(o, "Spawning") /\ pc[o] = "New" /\ plan' = [plan EXCEPT ![o] = p]
          /\ UNCHANGED <<at, mode, undo, undone, undoFailed, failure, emitted, channel>>
      BY <1>2 DEF Start, wireVars, hostVars
    <2>2. plan \in [Operations -> Plans \cup {<<>>}] /\ pc \in [Operations -> Pc]
      BY DEF Inv, Inv1, TypeOK, CallType, ThreadType
    <2>3. CASE x = o
      <3>1. plan'[o] \in Plans
        BY <2>1, <2>2
      <3> QED
        BY <2>1, <2>3, <3>1, StartingAccounts
    <2>4. CASE x # o
      <3>1. LocalFrame(x)
        BY <2>1, <2>2, <2>4 DEF Goto, LocalFrame
      <3>2. \A i \in DOMAIN plan[x] : NeedsUndo(x, i)' => NeedsUndo(x, i)
        BY <2>1, <2>2, <2>4 DEF NeedsUndo, Forward
      <3> QED
        BY <3>1, <3>2, CompFramed
    <2> QED
      BY <2>3, <2>4
  <1>3. ASSUME \/ \E o \in Operations : Cancel(o) \/ DeadlineElapses(o)
               \/ Shutdown
               \/ \E n \in outbox : EmitCancellation(n)
               \/ \E e \in emitted, r \in Replies : DispatchResult(e, r)
               \/ UNCHANGED vars
        PROVE  UNCHANGED threadVars /\ UNCHANGED <<emitted, channel>>
    BY <1>3 DEF Cancel, DeadlineElapses, Shutdown, EmitCancellation, DispatchResult, vars, wireVars, hostVars
  <1> QED
    BY <1>1, <1>2, <1>3, ThreadAccounts, SendResultAccounts DEF Next

LEMMA InitAccounts == Init => \A o \in Operations : CompInv(o)
  BY DEF Init, CompInv, Direction, Ended, Accounted

LEMMA CompensationsHold == Spec => [](\A o \in Operations : CompInv(o))
  <1>1. Inv /\ (\A o \in Operations : CompInv(o)) /\ [Next]_vars
        => (\A o \in Operations : CompInv(o))'
    BY StepAccounts
  <1> QED
    BY <1>1, InitAccounts, Inductive, PTL DEF Spec

\* run_operation: an operation that fails leaves no step behind; whatever may have
\* taken effect was compensated, or is reported as a compensation failure.
THEOREM FailuresAreCompensated == Spec => []CompensationComplete
  <1>1. (\A o \in Operations : CompInv(o)) => CompensationComplete
    <2> SUFFICES ASSUME NEW o \in Operations, CompInv(o), pc[o] = "Done", failure[o] # "None",
                        NEW i \in DOMAIN plan[o], NeedsUndo(o, i)
                 PROVE  Settled(o, i)
      BY DEF CompensationComplete
    <2>1. undo[o] = <<>>
      BY DEF CompInv, Direction, Ended
    <2> QED
      BY <2>1 DEF CompInv, Accounted, OnStack, Running
  <1> QED
    BY <1>1, CompensationsHold, PTL

\* run_operation: when the compensation of a step reaches the host, those of all
\* the later steps have ended.
THEOREM CompensationsRunInReverse == Spec => []UndoInReverse
  <1>1. Inv /\ (\A o \in Operations : CompInv(o)) => UndoInReverse
    <2> SUFFICES ASSUME Inv, NEW o \in Operations, CompInv(o),
                        NEW i \in DOMAIN plan[o], NEW j \in DOMAIN plan[o],
                        Reverse(o, i) \in emitted, i < j, NeedsUndo(o, j)
                 PROVE  Settled(o, j)
      BY DEF UndoInReverse
    <2>1. Reverse(o, i) \in EffectId /\ i \in Nat /\ j \in Nat
      <3>1. Len(plan[o]) \in Nat /\ DOMAIN plan[o] = 1..Len(plan[o])
        BY PlansAreShort, CapacityAssumption DEF Inv, Inv1
      <3> QED
        BY <3>1, ForwardIsEffect DEF Inv, Inv1
    <2>2. NotAhead(Reverse(o, i))
      BY <2>1 DEF Inv, NoticeInv, EffectInv
    <2>3. mode[o] = "Reverse" /\ i >= at[o] /\ at[o] \in Nat
      <3>1. at[o] \in Nat
        BY DEF Inv, Inv1, TypeOK, ThreadType
      <3> QED
        BY <2>1, <2>2, <3>1 DEF NotAhead, Reverse
    <2>4. failure[o] # "None" /\ at[o] # j
      BY <2>1, <2>3 DEF CompInv, Direction
    <2>5. ~OnStack(o, j)
      <3>1. CASE pc[o] \in Ended
        BY <2>4, <3>1 DEF CompInv, Direction, OnStack
      <3>2. CASE pc[o] \in Running
        <4>1. \A k \in DOMAIN undo[o] : undo[o][k] < at[o] /\ undo[o][k] \in Nat
          BY <3>2 DEF Inv, NoticeInv, ThreadInv, StackOrdered, Inv1, TypeOK, ThreadType
        <4> QED
          BY <2>1, <2>3, <4>1 DEF OnStack
      <3>3. pc[o] \notin {"New", "Spawning"}
        BY <2>3 DEF CompInv, Direction
      <3> QED
        BY <3>1, <3>2, <3>3 DEF Running, Ended, Inv, Inv1, TypeOK, ThreadType
    <2> QED
      BY <2>4, <2>5 DEF CompInv, Accounted
  <1> QED
    BY <1>1, CompensationsHold, Inductive, PTL

-----------------------------------------------------------------------------
(* Answers: the inductive invariant                                        *)

Answered(e) == {reports[e][i] : i \in DOMAIN reports[e]}

\* The order of the classifications in s, as in AnswersClassifiedOnce.
Consistent(s) ==
    \A j \in DOMAIN s :
        LET earlier == {s[i] : i \in 1..(j - 1)} IN
        /\ s[j] = "accepted" => earlier \subseteq {"mismatch"}
        /\ s[j] = "duplicate" => "accepted" \in earlier
        /\ s[j] = "late" => earlier \subseteq {"mismatch", "late"}

\* The ledger remembers what was answered: while an effect is pending, only
\* mismatches; afterwards what its entry says, for as long as it is kept.
LedgerTells(e) ==
    /\ e \notin emitted => reports[e] = <<>>
    /\ e \in PendingIds => Answered(e) \subseteq {"mismatch"}
    /\ completed[e] = "Completed" => "accepted" \in Answered(e)
    /\ completed[e] = "TimedOut" => Answered(e) \subseteq {"mismatch", "late"}

\* Only the thread itself tells the host that a deadline elapsed, when it has
\* taken the effect out of pending.
DeadlineTells(e) ==
    /\ pending[e].reason # "DeadlineElapsed"
    /\ DeadlineRecorded(e) => e \in emitted /\ e \notin PendingIds /\ "accepted" \notin Answered(e)

AnswerInv(e) == Consistent(reports[e]) /\ LedgerTells(e) /\ DeadlineTells(e)

AnswersKept ==
    /\ \A e \in EffectId : AnswerInv(e)
    /\ \A n \in outbox : n.reason # "DeadlineElapsed"

LEMMA ConsistentAppend ==
    ASSUME NEW s \in Seq(Class), NEW class \in Class, Consistent(s),
           NEW R, R = {s[i] : i \in DOMAIN s},
           class = "accepted" => R \subseteq {"mismatch"},
           class = "duplicate" => "accepted" \in R,
           class = "late" => R \subseteq {"mismatch", "late"}
    PROVE  /\ Consistent(Append(s, class))
           /\ {Append(s, class)[i] : i \in DOMAIN Append(s, class)} = R \cup {class}
  <1> DEFINE t == Append(s, class)
             n == Len(s)
  <1>1. /\ n \in Nat /\ DOMAIN s = 1..n /\ DOMAIN t = 1..(n + 1)
        /\ t[n + 1] = class /\ \A i \in 1..n : t[i] = s[i]
    OBVIOUS
  <1> HIDE DEF t, n
  <1>2. ASSUME NEW j \in 1..(n + 1)
        PROVE  {t[i] : i \in 1..(j - 1)} = {s[i] : i \in 1..(j - 1)}
    <2>1. \A i \in 1..(j - 1) : i \in 1..n
      BY <1>1
    <2>2. \A i \in 1..(j - 1) : t[i] = s[i]
      BY <1>1, <2>1
    <2> QED
      BY <2>2
  <1>3. {s[i] : i \in 1..((n + 1) - 1)} = R
    <2>1. 1..((n + 1) - 1) = DOMAIN s
      BY <1>1
    <2> QED
      BY <2>1
  <1>4. Consistent(t)
    <2> SUFFICES ASSUME NEW j \in 1..(n + 1)
                 PROVE  LET earlier == {s[i] : i \in 1..(j - 1)} IN
                        /\ t[j] = "accepted" => earlier \subseteq {"mismatch"}
                        /\ t[j] = "duplicate" => "accepted" \in earlier
                        /\ t[j] = "late" => earlier \subseteq {"mismatch", "late"}
      BY <1>1, <1>2 DEF Consistent
    <2>1. CASE j = n + 1
      BY <1>1, <1>3, <2>1
    <2>2. CASE j # n + 1
      <3>1. j \in DOMAIN s /\ t[j] = s[j]
        BY <1>1, <2>2
      <3> QED
        BY <3>1 DEF Consistent
    <2> QED
      BY <2>1, <2>2
  <1>5. {t[i] : i \in DOMAIN t} = R \cup {class}
    <2>1. DOMAIN t = DOMAIN s \cup {n + 1} /\ n + 1 \in DOMAIN t
      BY <1>1
    <2>2. \A i \in DOMAIN s : t[i] = s[i]
      BY <1>1
    <2> QED
      BY <1>1, <2>1, <2>2
  <1> QED
    BY <1>4, <1>5 DEF t

\* The ledger forgets an entry or makes one; it never changes one.
LEMMA Remembered ==
    ASSUME NEW e \in EffectId, NEW how, RememberCompleted(e, how)
    PROVE  /\ completed'[e] \in {how, "None"}
           /\ \A x \in EffectId : x # e => completed'[x] \in {completed[x], "None"}
  BY DEF RememberCompleted

LEMMA RecordedFramed ==
    ASSUME NEW e, published'[e] = published[e], held'[e.op] = held[e.op],
           Current(e.op)' = Current(e.op)
    PROVE  DeadlineRecorded(e)' <=> DeadlineRecorded(e)
  BY DEF DeadlineRecorded, HeldFor

\* A step that answers nothing: an effect may leave pending, or its entry the
\* ledger, and only an effect that was never sent is admitted.
LEMMA AnswerFramed ==
    ASSUME NEW e \in EffectId, AnswerInv(e), reports'[e] = reports[e],
           completed'[e] \in {completed[e], "None"}, e \in emitted => e \in emitted',
           pending'[e].reason # "DeadlineElapsed",
           (e \in PendingIds)' => e \in PendingIds \/ e \notin emitted,
           DeadlineRecorded(e)' => DeadlineRecorded(e)
    PROVE  AnswerInv(e)'
  <1>1. Answered(e)' = Answered(e)
    BY DEF Answered
  <1>2. e \notin emitted => Answered(e) = {}
    BY DEF AnswerInv, LedgerTells, Answered
  <1>3. LedgerTells(e)'
    BY <1>1, <1>2 DEF AnswerInv, LedgerTells
  <1>4. DeadlineTells(e)'
    BY <1>1 DEF AnswerInv, DeadlineTells
  <1>5. Consistent(reports[e])'
    BY ZenonT(30) DEF AnswerInv, Consistent
  <1> QED
    BY <1>3, <1>4, <1>5 DEF AnswerInv

-----------------------------------------------------------------------------
(* Answers: the steps of a thread                                          *)

\* The steps of a thread that leave pending and the ledger alone: what they
\* publish is what the thread held.
LEMMA QuietStepAnswers ==
    ASSUME Inv, AnswersKept, NEW o \in Operations,
           UNCHANGED <<pending, completed, reports, outbox>>, emitted \subseteq emitted',
           \A e \in EffectId : DeadlineRecorded(e)' => DeadlineRecorded(e)
    PROVE  AnswersKept'
  <1>1. ASSUME NEW e \in EffectId PROVE AnswerInv(e)'
    <2>1. (e \in PendingIds)' <=> e \in PendingIds
      BY DEF PendingIds
    <2> QED
      BY <2>1, AnswerFramed DEF AnswersKept, AnswerInv, DeadlineTells
  <1> QED
    BY <1>1 DEF AnswersKept

LEMMA HeldIsRecorded ==
    ASSUME Inv, NEW o \in Operations, pc[o] \in Running, PublishHeld(o),
           \A x \in Operations \ {o} : LocalFrame(x),
           NEW e \in EffectId, DeadlineRecorded(e)'
    PROVE  DeadlineRecorded(e)
  <1>0. /\ held \in [Operations -> Reason \cup {"None"}] /\ published \in [EffectId -> Seq(Reason)]
        /\ Current(o) \in EffectId /\ Current(o).op = o
    BY CurrentIsEffect DEF Inv, Inv1, TypeOK, CallType, HostType, Current
  <1>1. held'[o] = "None" /\ \A x \in Operations \ {o} : held'[x] = held[x]
    BY <1>0 DEF PublishHeld
  <1>2. CASE published'[e] = published[e]
    <2>1. CASE \E i \in DOMAIN published'[e] : published'[e][i] = "DeadlineElapsed"
      BY <1>2, <2>1 DEF DeadlineRecorded
    <2>2. CASE HeldFor(e)' /\ held'[e.op] = "DeadlineElapsed" /\ e.op # o
      <3>1. e.op \in Operations
        BY IsCurrent
      <3>2. held'[e.op] = held[e.op] /\ Current(e.op)' = Current(e.op)
        BY <1>1, <2>2, <3>1 DEF LocalFrame, Current
      <3> QED
        BY <2>2, <3>2 DEF HeldFor, DeadlineRecorded
    <2> QED
      BY <1>1, <2>1, <2>2 DEF DeadlineRecorded
  <1>3. CASE published'[e] # published[e]
    <2>1. held[o] # "None" /\ e = Current(o) /\ published'[e] = Append(published[e], held[o])
      BY <1>0, <1>3 DEF PublishHeld, Publish
    <2>2. HeldFor(e) /\ e.op = o
      BY <1>0, <2>1 DEF HeldFor
    <2>3. published[e] \in Seq(Reason) /\ held[o] \in Reason
      BY <1>0, <2>1
    <2>4. \A i \in DOMAIN published'[e] :
             published'[e][i] = held[o] \/ (i \in DOMAIN published[e] /\ published'[e][i] = published[e][i])
      BY <2>1, <2>3
    <2>5. ~(held'[e.op] = "DeadlineElapsed")
      BY <1>1, <2>2
    <2> QED
      BY <2>2, <2>4, <2>5 DEF DeadlineRecorded
  <1> QED
    BY <1>2, <1>3

LEMMA AdmitAnswers == ASSUME Inv, AnswersKept, NEW o \in Operations, Admit(o) PROVE AnswersKept'
  <1> DEFINE c == Current(o)
  <1>0. /\ pc[o] = "Admit" /\ c \in EffectId /\ c.op = o
        /\ pending' = [pending EXCEPT ![c] = [phase |-> "Emitting", reason |-> "None"]]
        /\ pending \in [EffectId -> Slot]
        /\ UNCHANGED <<at, mode, held, completed, reports, outbox, emitted, published>>
    BY CurrentIsEffect DEF Admit, Inv, Inv1, TypeOK, LedgerType, Running, Pc, Current, wireVars, hostVars
  <1>1. c \notin emitted
    BY <1>0, IsCurrent DEF Inv, NoticeInv, EffectInv, NotAhead
  <1>2. ASSUME NEW e \in EffectId PROVE AnswerInv(e)'
    <2>1. DeadlineRecorded(e)' <=> DeadlineRecorded(e)
      BY <1>0, RecordedFramed DEF Current
    <2>2. CASE e = c
      BY <1>0, <1>1, <2>1, <2>2, AnswerFramed DEF AnswersKept
    <2>3. CASE e # c
      <3>1. pending'[e] = pending[e]
        BY <1>0, <2>3
      <3>2. (e \in PendingIds)' <=> e \in PendingIds
        BY <3>1 DEF PendingIds
      <3> QED
        BY <1>0, <2>1, <3>1, <3>2, AnswerFramed DEF AnswersKept, AnswerInv, DeadlineTells
    <2> QED
      BY <2>2, <2>3
  <1> QED
    BY <1>0, <1>2 DEF AnswersKept

\* A deferred cancellation is never that of a deadline.
LEMMA MarkDispatchedAnswers ==
    ASSUME Inv, AnswersKept, NEW o \in Operations, MarkDispatched(o)
    PROVE  AnswersKept'
  <1> DEFINE c == Current(o)
  <1>0. /\ c \in EffectId /\ c.op = o
        /\ pending' = IF c \in PendingIds THEN [pending EXCEPT ![c].phase = "Dispatched"] ELSE pending
        /\ pending \in [EffectId -> Slot] /\ held \in [Operations -> Reason \cup {"None"}]
        /\ held' = [held EXCEPT ![o] = pending[c].reason]
        /\ UNCHANGED <<at, mode, completed, reports, outbox, emitted, published>>
    BY CurrentIsEffect DEF MarkDispatched, Deferred, Inv, Inv1, TypeOK, LedgerType, CallType, Running,
       Pc, Current, wireVars, hostVars
  <1>1. ASSUME NEW e \in EffectId PROVE AnswerInv(e)'
    <2>1. pending'[e].reason = pending[e].reason /\ ((e \in PendingIds)' <=> e \in PendingIds)
      BY <1>0 DEF PendingIds, Slot
    <2>2. DeadlineRecorded(e)' => DeadlineRecorded(e)
      <3>1. pending[c].reason # "DeadlineElapsed"
        BY <1>0 DEF AnswersKept, AnswerInv, DeadlineTells
      <3>2. CASE e.op = o
        <4>1. held'[e.op] # "DeadlineElapsed"
          BY <1>0, <3>1, <3>2
        <4> QED
          BY <1>0, <4>1 DEF DeadlineRecorded
      <3>3. CASE e.op # o
        <4>1. held'[e.op] = held[e.op] /\ Current(e.op)' = Current(e.op)
          BY <1>0, <3>3, IsCurrent DEF Current
        <4> QED
          BY <1>0, <4>1, RecordedFramed
      <3> QED
        BY <3>2, <3>3
    <2> QED
      BY <1>0, <2>1, <2>2, AnswerFramed DEF AnswersKept, AnswerInv, DeadlineTells
  <1> QED
    BY <1>0, <1>1 DEF AnswersKept

LEMMA ExpiredAnswer ==
    ASSUME Inv, AnswersKept, NEW e \in EffectId, e \in PendingIds, pc[e.op] = "Expired",
           pending' = [pending EXCEPT ![e] = Absent], RememberCompleted(e, "TimedOut"),
           reports' = reports, emitted' = emitted
    PROVE  (AnswerInv(e))'
  <1>1. Answered(e) \subseteq {"mismatch"} /\ Answered(e)' = Answered(e) /\ AnswerInv(e)
    <2>1. AnswerInv(e)
      BY DEF AnswersKept
    <2>2. Answered(e)' = Answered(e)
      BY DEF Answered
    <2> QED
      BY <2>1, <2>2 DEF AnswerInv, LedgerTells
  <1>2. e \in emitted
    <2>1. e.op \in Operations /\ Current(e.op) = e
      BY IsCurrent DEF Inv, NoticeInv, EffectInv, PendingIsCurrent
    <2> QED
      BY <2>1 DEF Inv, NoticeInv, ThreadInv, CallInProgress
  <1>3. pending'[e] = Absent /\ ~(e \in PendingIds)'
    BY DEF Inv, Inv1, TypeOK, LedgerType, PendingIds, Absent
  <1>4. completed'[e] \in {"TimedOut", "None"}
    BY Remembered
  <1>5. LedgerTells(e)'
    BY <1>1, <1>2, <1>3, <1>4 DEF LedgerTells
  <1>6. DeadlineTells(e)'
    BY <1>1, <1>2, <1>3 DEF DeadlineTells, Absent
  <1>7. Consistent(reports[e])'
    BY <1>1 DEF AnswerInv, Consistent
  <1> QED
    BY <1>5, <1>6, <1>7 DEF AnswerInv

\* The deadline of an effect is recorded when nothing was accepted, and nothing
\* will be: the effect leaves pending for good.
LEMMA ExpireAnswers == ASSUME Inv, AnswersKept, NEW o \in Operations, Expire(o) PROVE AnswersKept'
  <1> DEFINE c == Current(o)
  <1>0. /\ pc[o] = "Expired" /\ c \in EffectId /\ c.op = o
        /\ pending \in [EffectId -> Slot] /\ held \in [Operations -> Reason \cup {"None"}]
        /\ UNCHANGED <<at, mode, reports, outbox, emitted, published>>
    BY CurrentIsEffect DEF Expire, Inv, Inv1, TypeOK, LedgerType, CallType, Running,
       Pc, Current, wireVars, hostVars
  <1>1. CASE c \notin PendingIds
    <2>1. UNCHANGED <<pending, completed, held>>
      BY <1>1 DEF Expire
    <2>2. \A e \in EffectId : DeadlineRecorded(e)' <=> DeadlineRecorded(e)
      BY <1>0, <2>1, RecordedFramed DEF Current
    <2> QED
      BY <1>0, <2>1, <2>2, QuietStepAnswers
  <1>2. CASE c \in PendingIds
    <2>1. /\ pending' = [pending EXCEPT ![c] = Absent]
          /\ RememberCompleted(c, "TimedOut")
          /\ \A x \in Operations \ {o} : held'[x] = held[x]
      BY <1>0, <1>2 DEF Expire, Take
    <2>2. ASSUME NEW e \in EffectId, e = c PROVE AnswerInv(e)'
      BY <1>0, <1>2, <2>1, <2>2, ExpiredAnswer
    <2>3. ASSUME NEW e \in EffectId, e # c PROVE AnswerInv(e)'
      <3>1. completed'[e] \in {completed[e], "None"}
        BY <1>0, <2>1, <2>3, Remembered
      <3>2. pending'[e] = pending[e]
        BY <1>0, <2>1, <2>3
      <3>3. (e \in PendingIds)' <=> e \in PendingIds
        BY <3>2 DEF PendingIds
      <3>4. Current(e.op)' = Current(e.op)
        BY <1>0 DEF Current
      <3>5. DeadlineRecorded(e)' <=> DeadlineRecorded(e)
        <4>1. CASE e.op # o
          BY <1>0, <2>1, <3>4, <4>1, IsCurrent, RecordedFramed
        <4>2. CASE e.op = o
          BY <1>0, <2>3, <3>4, <4>2 DEF DeadlineRecorded, HeldFor
        <4> QED
          BY <4>1, <4>2
      <3> QED
        BY <1>0, <3>1, <3>2, <3>3, <3>5, AnswerFramed DEF AnswersKept, AnswerInv, DeadlineTells
    <2> QED
      BY <1>0, <2>2, <2>3 DEF AnswersKept
  <1> QED
    BY <1>1, <1>2

LEMMA ThreadAnswers == ASSUME Inv, AnswersKept, NEW o \in Operations, Thread(o) PROVE AnswersKept'
  <1>0. /\ \A x \in Operations \ {o} : LocalFrame(x)
        /\ held \in [Operations -> Reason \cup {"None"}] /\ ThreadInv(o)
    BY ThreadIsLocal DEF Inv, Inv1, TypeOK, CallType, NoticeInv
  <1>1. ASSUME pc[o] \in Running, PublishHeld(o),
               UNCHANGED <<pending, completed, reports, outbox, emitted>>
        PROVE  AnswersKept'
    BY <1>0, <1>1, HeldIsRecorded, QuietStepAnswers
  <1>2. ASSUME UNCHANGED <<held, published>>, held[o] = "None" PROVE PublishHeld(o)
    BY <1>0, <1>2 DEF PublishHeld
  <1>3. CASE CheckCancelled(o) \/ Refuse(o) \/ Receive(o)
    <2>1. /\ UNCHANGED <<held, published, pending, completed, reports, outbox, emitted>>
          /\ pc[o] \in {"StepCheck", "Admit", "Wait"}
      BY <1>3 DEF CheckCancelled, Refuse, Receive, ledgerVars, hostVars
    <2>2. held[o] = "None"
      BY <1>0, <2>1 DEF ThreadInv, CallInProgress
    <2> QED
      BY <1>1, <1>2, <2>1, <2>2 DEF Running, Pc
  <1>4. CASE Recall(o) \/ NotifyDeadline(o)
    <2>1. /\ UNCHANGED <<pending, completed, reports, outbox, emitted>>
          /\ PublishHeld(o) /\ pc[o] \in {"Recall", "DeadlineNotice"}
      BY <1>4 DEF Recall, NotifyDeadline, PublishHeld, ledgerVars
    <2> QED
      BY <1>1, <2>1 DEF Running, Pc
  <1>5. CASE Spawn(o) \/ RuntimeFails(o) \/ SpawnFails(o) \/ TimerFires(o) \/ Finish(o) \/ Leave(o) \/ Emit(o)
    <2>1. /\ UNCHANGED <<at, mode, held, pending, completed>>
          /\ UNCHANGED <<published, reports, outbox>> /\ emitted \subseteq emitted'
      BY <1>5 DEF Spawn, RuntimeFails, SpawnFails, TimerFires, Finish, Leave, Emit, ledgerVars, hostVars
    <2>2. \A e \in EffectId : DeadlineRecorded(e)' <=> DeadlineRecorded(e)
      BY <2>1, RecordedFramed DEF Current
    <2> QED
      BY <2>1, <2>2, QuietStepAnswers
  <1> QED
    BY <1>3, <1>4, <1>5, AdmitAnswers, MarkDispatchedAnswers, ExpireAnswers DEF Thread

-----------------------------------------------------------------------------
(* Answers: the callers, and the theorem                                   *)

\* Cancel and shutdown mark the pending effects with reasons of their own.
LEMMA MarkAnswers ==
    ASSUME Inv, AnswersKept, NEW ids, NEW reason \in Reason \ {"DeadlineElapsed"}, Mark(ids, reason),
           outbox' = outbox \cup Records(ids, reason),
           UNCHANGED <<completed, emitted, published, reports, threadVars>>
    PROVE  AnswersKept'
  <1>1. ASSUME NEW e \in EffectId PROVE AnswerInv(e)'
    <2>1. pending'[e] = IF e \in Unmarked(ids) THEN [pending[e] EXCEPT !.reason = reason] ELSE pending[e]
      BY DEF Mark
    <2>2. pending[e] \in Slot
      BY DEF Inv, Inv1, TypeOK, LedgerType
    <2>3. /\ pending'[e].phase = pending[e].phase
          /\ pending'[e].reason \in {reason, pending[e].reason}
      BY <2>1, <2>2 DEF Slot
    <2>4. (e \in PendingIds)' <=> e \in PendingIds
      BY <2>3 DEF PendingIds
    <2>5. DeadlineRecorded(e)' <=> DeadlineRecorded(e)
      BY RecordedFramed DEF threadVars, Current
    <2> QED
      BY <2>3, <2>4, <2>5, AnswerFramed DEF AnswersKept, AnswerInv, DeadlineTells
  <1>2. \A n \in outbox' : n.reason # "DeadlineElapsed"
    BY DEF Records, AnswersKept
  <1> QED
    BY <1>1, <1>2 DEF AnswersKept

LEMMA CancelAnswers == ASSUME Inv, AnswersKept, NEW o \in Operations, Cancel(o) PROVE AnswersKept'
  <1> DEFINE mine == {e \in EffectId : e.op = o}
  <1>1. /\ Mark(mine, "OperationCancelled")
        /\ outbox' = outbox \cup Records(mine, "OperationCancelled")
        /\ UNCHANGED <<completed, emitted, published, reports, threadVars>>
    BY DEF Cancel
  <1> HIDE DEF mine
  <1> QED
    BY <1>1, MarkAnswers DEF Reason

LEMMA ShutdownAnswers == ASSUME Inv, AnswersKept, Shutdown PROVE AnswersKept'
  <1>1. /\ Mark(EffectId, "ActorStopped")
        /\ outbox' = outbox \cup Records(EffectId, "ActorStopped")
        /\ UNCHANGED <<completed, emitted, published, reports, threadVars>>
    BY DEF Shutdown
  <1> QED
    BY <1>1, MarkAnswers DEF Reason

LEMMA EmitCancellationAnswers ==
    ASSUME Inv, AnswersKept, NEW n \in outbox, EmitCancellation(n)
    PROVE  AnswersKept'
  <1>0. /\ published' = [published EXCEPT ![n.effect] = Append(published[n.effect], n.reason)]
        /\ published \in [EffectId -> Seq(Reason)]
        /\ outbox' = outbox \ {n} /\ n.effect \in EffectId /\ n.reason \in Reason
        /\ n.reason # "DeadlineElapsed"
        /\ UNCHANGED <<pending, completed, reports, emitted, at, mode, held>>
    BY DEF EmitCancellation, Publish, Inv, Inv1, TypeOK, HostType, Notice, AnswersKept,
       ledgerVars, wireVars, threadVars
  <1>1. ASSUME NEW e \in EffectId, DeadlineRecorded(e)' PROVE DeadlineRecorded(e)
    <2>1. HeldFor(e)' <=> HeldFor(e)
      BY <1>0 DEF HeldFor, Current
    <2>2. CASE e # n.effect
      <3>1. published'[e] = published[e]
        BY <1>0, <2>2
      <3> QED
        BY <1>0, <1>1, <2>1, <3>1 DEF DeadlineRecorded
    <2>3. CASE e = n.effect
      <3>1. published'[e] = Append(published[e], n.reason) /\ published[e] \in Seq(Reason)
        BY <1>0, <2>3
      <3>2. \A i \in DOMAIN published'[e] :
               published'[e][i] = n.reason \/ (i \in DOMAIN published[e] /\ published'[e][i] = published[e][i])
        BY <1>0, <3>1
      <3> QED
        BY <1>0, <1>1, <2>1, <3>2 DEF DeadlineRecorded
    <2> QED
      BY <2>2, <2>3
  <1>2. ASSUME NEW e \in EffectId PROVE AnswerInv(e)'
    <2>1. (e \in PendingIds)' <=> e \in PendingIds
      BY <1>0 DEF PendingIds
    <2> QED
      BY <1>0, <1>1, <2>1, AnswerFramed DEF AnswersKept, AnswerInv, DeadlineTells
  <1> QED
    BY <1>0, <1>2 DEF AnswersKept

\* The answer to effect e is classified.  It was sent; it is accepted or late when
\* it takes e out of pending, and otherwise what the ledger says of e.
LEMMA ClassifiedAnswer ==
    ASSUME Inv, NEW e \in EffectId, AnswerInv(e), e \in emitted, emitted' = emitted,
           NEW class \in Class, Classified(e, class),
           DeadlineRecorded(e)' <=> DeadlineRecorded(e),
           \/ /\ UNCHANGED <<pending, completed>>
              /\ \/ e \in PendingIds /\ class = "mismatch"
                 \/ e \notin PendingIds /\ completed[e] = "TimedOut" /\ class = "late"
                 \/ e \notin PendingIds /\ completed[e] = "Completed" /\ class = "duplicate"
                 \/ e \notin PendingIds /\ completed[e] = "None" /\ class = "unknown"
           \/ e \in PendingIds /\ Take(e, "TimedOut") /\ class = "late"
           \/ e \in PendingIds /\ Take(e, "Completed") /\ class = "accepted"
    PROVE  AnswerInv(e)'
  <1>0. reports[e] \in Seq(Class) /\ reports'[e] = Append(reports[e], class)
    BY DEF Classified, Inv, Inv1, TypeOK, HostType
  <1>1. /\ Consistent(reports[e]) /\ LedgerTells(e) /\ DeadlineTells(e)
        /\ Answered(e) = {reports[e][i] : i \in DOMAIN reports[e]}
    BY DEF AnswerInv, Answered
  <1>2. /\ class = "accepted" => Answered(e) \subseteq {"mismatch"}
        /\ class = "duplicate" => "accepted" \in Answered(e)
        /\ class = "late" => Answered(e) \subseteq {"mismatch", "late"}
    BY <1>1 DEF LedgerTells
  <1>3. Consistent(reports'[e]) /\ Answered(e)' = Answered(e) \cup {class}
    <2> DEFINE longer == Append(reports[e], class)
    <2>1. Consistent(longer) /\ {longer[i] : i \in DOMAIN longer} = Answered(e) \cup {class}
      BY <1>0, <1>1, <1>2, ConsistentAppend
    <2>2. Answered(e)' = {reports'[e][i] : i \in DOMAIN reports'[e]}
      BY DEF Answered
    <2> QED
      BY <1>0, <2>1, <2>2
  <1>4. CASE UNCHANGED <<pending, completed>>
    <2>1. (e \in PendingIds)' <=> e \in PendingIds
      BY <1>4 DEF PendingIds
    <2>2. ~(\E how \in {"TimedOut", "Completed"} : Take(e, how) /\ e \in PendingIds)
      BY <1>4 DEF Take, Absent, PendingIds, Inv, Inv1, TypeOK, LedgerType
    <2>3. LedgerTells(e)'
      BY <1>1, <1>3, <1>4, <2>1, <2>2 DEF LedgerTells
    <2>4. DeadlineTells(e)'
      BY <1>1, <1>3, <1>4, <2>1, <2>2 DEF DeadlineTells
    <2> QED
      BY <1>3, <2>3, <2>4 DEF AnswerInv, Consistent
  <1>5. ASSUME NEW how \in {"TimedOut", "Completed"}, Take(e, how), e \in PendingIds,
               class = IF how = "TimedOut" THEN "late" ELSE "accepted"
        PROVE  AnswerInv(e)'
    <2>1. pending'[e] = Absent /\ ~(e \in PendingIds)'
      BY <1>5 DEF Take, Inv, Inv1, TypeOK, LedgerType, PendingIds, Absent
    <2>2. completed'[e] \in {how, "None"}
      BY <1>5, Remembered DEF Take
    <2>3. Answered(e) \subseteq {"mismatch"}
      BY <1>1, <1>5 DEF LedgerTells
    <2>4. LedgerTells(e)'
      BY <1>3, <1>5, <2>1, <2>2, <2>3 DEF LedgerTells
    <2>5. ~DeadlineRecorded(e)
      BY <1>1, <1>5 DEF DeadlineTells
    <2>6. DeadlineTells(e)'
      BY <2>1, <2>5 DEF DeadlineTells, Absent
    <2> QED
      BY <1>3, <2>4, <2>6 DEF AnswerInv, Consistent
  <1> QED
    BY <1>4, <1>5

LEMMA DispatchAnswers ==
    ASSUME Inv, AnswersKept, NEW e \in emitted, NEW reply \in Replies, DispatchResult(e, reply)
    PROVE  AnswersKept'
  <1>0. /\ e \in EffectId /\ completed[e] \in {"None", "Completed", "TimedOut"}
        /\ reports \in [EffectId -> Seq(Class)] /\ pending \in [EffectId -> Slot]
        /\ UNCHANGED <<emitted, outbox, published, at, mode, held>>
    BY DEF DispatchResult, Inv, Inv1, TypeOK, HostType, LedgerType, threadVars
  <1>1. \A x \in EffectId : DeadlineRecorded(x)' <=> DeadlineRecorded(x)
    BY <1>0, RecordedFramed DEF Current
  <1>2. \E class \in Class :
           /\ Classified(e, class)
           /\ \/ /\ UNCHANGED <<pending, completed>>
                 /\ \/ e \in PendingIds /\ class = "mismatch"
                    \/ e \notin PendingIds /\ completed[e] = "TimedOut" /\ class = "late"
                    \/ e \notin PendingIds /\ completed[e] = "Completed" /\ class = "duplicate"
                    \/ e \notin PendingIds /\ completed[e] = "None" /\ class = "unknown"
              \/ e \in PendingIds /\ Take(e, "TimedOut") /\ class = "late"
              \/ e \in PendingIds /\ Take(e, "Completed") /\ class = "accepted"
    <2>1. CASE DispatchUnmatched(e, reply)
      <3>1. UNCHANGED <<pending, completed>>
        BY <2>1 DEF DispatchUnmatched, ledgerVars
      <3>2. CASE e \in PendingIds
        BY <2>1, <3>1, <3>2 DEF DispatchUnmatched, Class
      <3>3. CASE e \notin PendingIds
        BY <1>0, <2>1, <3>1, <3>3 DEF DispatchUnmatched, Class
      <3> QED
        BY <3>2, <3>3
    <2>2. CASE DispatchLate(e, reply)
      BY <2>2 DEF DispatchLate, Class
    <2>3. CASE DispatchAccepted(e, reply)
      BY <2>3 DEF DispatchAccepted, Class
    <2> QED
      BY <2>1, <2>2, <2>3 DEF DispatchResult
  <1>3. AnswerInv(e)'
    BY <1>0, <1>1, <1>2, ClassifiedAnswer DEF AnswersKept
  <1>4. ASSUME NEW x \in EffectId, x # e PROVE AnswerInv(x)'
    <2>1. reports'[x] = reports[x]
      BY <1>0, <1>2, <1>4 DEF Classified
    <2>2. completed'[x] \in {completed[x], "None"} /\ pending'[x] = pending[x]
      BY <1>0, <1>2, <1>4, Remembered DEF Take
    <2>3. (x \in PendingIds)' <=> x \in PendingIds
      BY <2>2 DEF PendingIds
    <2> QED
      BY <1>0, <1>1, <2>1, <2>2, <2>3, AnswerFramed DEF AnswersKept, AnswerInv, DeadlineTells
  <1> QED
    BY <1>0, <1>3, <1>4 DEF AnswersKept

LEMMA StepAnswers == Inv /\ AnswersKept /\ [Next]_vars => AnswersKept'
  <1> SUFFICES ASSUME Inv, AnswersKept, [Next]_vars PROVE AnswersKept'
    OBVIOUS
  <1>1. ASSUME UNCHANGED <<pending, completed, reports, outbox, emitted, published, at, mode, held>>
        PROVE  AnswersKept'
    <2>1. ASSUME NEW e \in EffectId PROVE AnswerInv(e)'
      <3>1. (DeadlineRecorded(e)' <=> DeadlineRecorded(e)) /\ ((e \in PendingIds)' <=> e \in PendingIds)
        BY <1>1, RecordedFramed DEF Current, PendingIds
      <3> QED
        BY <1>1, <3>1, AnswerFramed DEF AnswersKept, AnswerInv, DeadlineTells
    <2> QED
      BY <1>1, <2>1 DEF AnswersKept
  <1>2. ASSUME \/ \E o \in Operations, p \in Plans : Start(o, p)
               \/ \E o \in Operations : DeadlineElapses(o)
               \/ \E s \in sending : SendResult(s)
               \/ UNCHANGED vars
        PROVE  AnswersKept'
    <2>1. UNCHANGED <<pending, completed, reports, outbox, emitted, published, at, mode, held>>
      BY <1>2 DEF Start, DeadlineElapses, SendResult, vars, ledgerVars, wireVars, hostVars, threadVars
    <2> QED
      BY <1>1, <2>1
  <1> QED
    BY <1>2, ThreadAnswers, CancelAnswers, ShutdownAnswers, EmitCancellationAnswers, DispatchAnswers
       DEF Next

LEMMA InitAnswers == Init => AnswersKept
  <1> SUFFICES ASSUME Init PROVE AnswersKept
    OBVIOUS
  <1>1. ASSUME NEW e \in EffectId PROVE AnswerInv(e)
    <2>1. /\ e \notin PendingIds /\ reports[e] = <<>> /\ completed[e] = "None"
          /\ pending[e].reason = "None" /\ published[e] = <<>>
      BY DEF Init, PendingIds, Absent
    <2>2. ~HeldFor(e)
      BY IsCurrent DEF Init, HeldFor
    <2> QED
      BY <2>1, <2>2 DEF AnswerInv, Consistent, LedgerTells, DeadlineTells, DeadlineRecorded
  <1> QED
    BY <1>1 DEF Init, AnswersKept

\* dispatch_results and the deadline: at most one answer to an effect is accepted,
\* none when the host is told that the deadline elapsed; duplicates come only after
\* an accepted one, and late answers never follow it.
THEOREM AnswersAgree == Spec => []AnswersClassifiedOnce
  <1>1. AnswersKept => AnswersClassifiedOnce
    <2> SUFFICES ASSUME NEW e \in EffectId, AnswerInv(e)
                 PROVE  /\ Consistent(reports[e])
                        /\ DeadlineRecorded(e) =>
                              e \notin PendingIds /\ \A i \in DOMAIN reports[e] : reports[e][i] # "accepted"
      BY DEF AnswersKept, AnswersClassifiedOnce, Consistent
    <2> QED
      BY DEF AnswerInv, DeadlineTells, Answered
  <1>2. Inv /\ AnswersKept /\ [Next]_vars => AnswersKept'
    BY StepAnswers
  <1> QED
    BY <1>1, <1>2, InitAnswers, Inductive, PTL DEF Spec
=============================================================================
