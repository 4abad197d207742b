---------------------- MODULE EffectCoordinatorProofs ----------------------
(***************************************************************************)
(* Properties of EffectCoordinator, for any effects and bounds: an effect *)
(* that destroys is executed at most once, since a receipt of the process  *)
(* remembers the task that runs it; a cancelled effect is answered as      *)
(* such; who is let through the fence of a window finds every projection   *)
(* done that was sent before; a coordinator that has stopped leaves        *)
(* nothing behind, although it awaited only the last effect of each lane;  *)
(* and the lanes serve as ScopedLock says, although an effect awaits only  *)
(* the last one of each lane, too.                                         *)
(***************************************************************************)
EXTENDS EffectCoordinator, TLAPS

Fields == {"request", "kind", "of", "after", "phase", "continued", "reason", "answer",
           "projection"}

\* The tasks are a sequence of records.
Numbered ==
    /\ Len(tasks) \in Nat /\ DOMAIN tasks = 1..Len(tasks)
    /\ \A t \in DOMAIN tasks : DOMAIN tasks[t] = Fields

Clears(t) == tasks[t].kind = "First" /\ tasks[t].request \in Destructive

\* A task that runs a destructive effect has its receipt.
Receipted ==
    /\ \A t \in DOMAIN tasks : Clears(t) =>
          /\ EffectOf[tasks[t].request] \in DOMAIN receipts
          /\ receipts[EffectOf[tasks[t].request]] = t
    /\ \A e \in DOMAIN receipts : receipts[e] # 0

\* What a task tells of itself is consistent.
Sound(x) ==
    /\ x.phase = "Continuing" => x.continued
    /\ x.phase = "Awaiting" => x.kind # "First"
    /\ x.kind = "First" /\ x.answer = "Ok" /\ x.reason # "None" =>
          x.continued /\ x.reason # "StreamFailure"
    /\ x.kind = "First" /\ x.request \in Projecting =>
          /\ x.projection \in {"Pending", "Settled", "Failed"}
          /\ x.projection # "Pending" => x.phase = "Done"

\* A reader waits for each projection that it asked about, or it is over.
ReaderOK ==
    /\ reader.upTo \in 0..Len(tasks)
    /\ \A t \in 1..reader.upTo :
          Projects(t) /\ reader.window \in ScopesOf[tasks[t].request] =>
             t \in reader.awaits \/ tasks[t].phase = "Done"
    /\ reader.awaits \subseteq {t \in DOMAIN tasks : Projects(t)}

Inv ==
    /\ Numbered
    /\ Receipted
    /\ \A t \in DOMAIN tasks : Sound(tasks[t])
    /\ ReaderOK

LEMMA NoReaderIsOK ==
    ASSUME Numbered, reader = NoReader
    PROVE  ReaderOK
  BY DEF Numbered, ReaderOK, NoReader

LEMMA InitInv == Init => Inv
  BY NoReaderIsOK DEF Init, Fresh, Inv, Numbered, Receipted

\* What a task is and what it runs never changes, and one that is done stays so.
SameTasks ==
    /\ Len(tasks') = Len(tasks) /\ DOMAIN tasks' = DOMAIN tasks
    /\ \A t \in DOMAIN tasks :
          /\ DOMAIN tasks'[t] = DOMAIN tasks[t]
          /\ tasks'[t].kind = tasks[t].kind /\ tasks'[t].request = tasks[t].request
          /\ tasks[t].phase = "Done" => tasks'[t].phase = "Done"
          /\ Sound(tasks'[t])

LEMMA SameTasksKeepInv ==
    ASSUME Inv, SameTasks, receipts' = receipts, reader' \in {reader, NoReader}
    PROVE  Inv'
<1>1. Numbered'
  BY DEF Inv, Numbered, SameTasks
<1>2. Receipted'
  BY DEF Inv, Receipted, Clears, SameTasks
<1>3. \A t \in DOMAIN tasks' : Sound(tasks'[t])
  BY DEF SameTasks
<1>4. ReaderOK'
  <2>1. CASE reader' = NoReader
    BY <1>1, <2>1 DEF Numbered, ReaderOK, NoReader
  <2>2. CASE reader' = reader
    BY <2>2 DEF Inv, Numbered, ReaderOK, Projects, SameTasks
  <2> QED
    BY <2>1, <2>2
<1> QED
  BY <1>1, <1>2, <1>3, <1>4 DEF Inv

\* A step of one task leaves what it is and what it runs alone.
LEMMA OneTaskChanges ==
    ASSUME Inv, NEW t \in DOMAIN tasks, NEW x, tasks' = [tasks EXCEPT ![t] = x],
           tasks[t].phase # "Done", Sound(x),
           DOMAIN x = DOMAIN tasks[t], x.kind = tasks[t].kind, x.request = tasks[t].request
    PROVE  SameTasks
  BY DEF Inv, Numbered, SameTasks

LEMMA CancelAllChanges ==
    ASSUME Inv, NEW which, NEW reason, CancelAll(which, reason)
    PROVE  SameTasks
<1>1. DOMAIN tasks' = DOMAIN tasks
  BY DEF CancelAll
<1>2. ASSUME NEW t \in DOMAIN tasks
      PROVE  /\ DOMAIN tasks'[t] = DOMAIN tasks[t]
             /\ tasks'[t].kind = tasks[t].kind /\ tasks'[t].request = tasks[t].request
             /\ tasks[t].phase = "Done" => tasks'[t].phase = "Done"
             /\ Sound(tasks'[t])
  BY DEF CancelAll, Inv, Numbered, Fields, Sound, Settled
<1>3. Len(tasks') = Len(tasks)
  BY <1>1 DEF Inv, Numbered, CancelAll
<1> QED
  BY <1>1, <1>2, <1>3 DEF SameTasks

\* The delivery of an effect that is known, refused or new.
LEMMA DeliverInv ==
    ASSUME Inv, NEW r \in Requests, Deliver(r)
    PROVE  Inv'
<1> DEFINE e == EffectOf[r]
           new == Len(tasks) + 1
<1>1. PICK x : /\ tasks' = Append(tasks, x) /\ x.request = r
                /\ DOMAIN x = Fields /\ Sound(x)
  BY DEF Deliver, NewTask, Fields, Sound
<1>2. /\ Len(tasks') = new /\ DOMAIN tasks' = 1..new /\ new \in Nat
      /\ tasks'[new] = x
      /\ \A t \in DOMAIN tasks : tasks'[t] = tasks[t]
  BY <1>1 DEF Inv, Numbered
<1>3. Numbered'
  BY <1>1, <1>2 DEF Inv, Numbered
<1>a. ReaderOK' /\ \A t \in DOMAIN tasks' : Sound(tasks'[t])
  BY <1>1, <1>2 DEF Deliver, Inv, Numbered, ReaderOK, Projects
<1>4. CASE /\ Existing(e) = 0
           /\ tasks' = Append(tasks, NewTask(r, "First", 0, Predecessors(ScopesOf[r])))
           /\ receipts' = IF r \in Destructive
                          THEN [f \in DOMAIN receipts \cup {e} |-> IF f = e THEN new ELSE receipts[f]]
                          ELSE receipts
  <2>1. e \notin DOMAIN receipts
    BY <1>4 DEF Existing, Inv, Receipted
  <2>2. tasks'[new].request = r
    BY <1>1, <1>2
  <2>3. \A f \in DOMAIN receipts : f \in DOMAIN receipts' /\ receipts'[f] = receipts[f]
    BY <1>4, <2>1
  <2>4. r \in Destructive => e \in DOMAIN receipts' /\ receipts'[e] = new
    BY <1>4
  <2>5. \A f \in DOMAIN receipts' : receipts'[f] # 0
    BY <1>2, <1>4 DEF Inv, Numbered, Receipted
  <2>6. ASSUME NEW t \in DOMAIN tasks', Clears(t)'
        PROVE  /\ EffectOf[tasks'[t].request] \in DOMAIN receipts'
               /\ receipts'[EffectOf[tasks'[t].request]] = t
    <3>1. CASE t = new
      BY <2>2, <2>4, <2>6, <3>1 DEF Clears
    <3>2. CASE t \in DOMAIN tasks
      BY <1>2, <2>3, <2>6, <3>2 DEF Clears, Inv, Receipted
    <3> QED
      BY <1>2, <3>1, <3>2 DEF Inv, Numbered
  <2> QED
    BY <1>3, <1>a, <2>5, <2>6 DEF Inv, Receipted
<1>5. CASE receipts' = receipts /\ x.kind # "First"
  <2>1. \A t \in DOMAIN tasks' : Clears(t)' => t \in DOMAIN tasks /\ Clears(t)
    BY <1>2, <1>5 DEF Clears, Inv, Numbered
  <2> QED
    BY <1>2, <1>3, <1>a, <1>5, <2>1 DEF Inv, Receipted
<1>6. \/ /\ Existing(e) = 0
         /\ tasks' = Append(tasks, NewTask(r, "First", 0, Predecessors(ScopesOf[r])))
         /\ receipts' = IF r \in Destructive
                        THEN [f \in DOMAIN receipts \cup {e} |-> IF f = e THEN new ELSE receipts[f]]
                        ELSE receipts
      \/ receipts' = receipts /\ tasks'[new].kind # "First"
  BY <1>2 DEF Deliver, NewTask, Inv, Numbered
<1> QED
  BY <1>2, <1>4, <1>5, <1>6

\* A task is given its answer.
LEMMA SettleKeepsTasks ==
    ASSUME Inv, NEW t \in DOMAIN tasks, NEW task, NEW answer, Settle(t, task, answer),
           task \in {tasks[t], [tasks[t] EXCEPT !.after = {}]},
           tasks[t].phase # "Done",
           answer = "Ok" /\ tasks[t].reason # "None" =>
              tasks[t].continued /\ tasks[t].reason # "StreamFailure"
    PROVE  SameTasks
<1> DEFINE x == [task EXCEPT !.phase = "Acknowledging", !.answer = answer]
<1>1. tasks' = [tasks EXCEPT ![t] = x]
  BY DEF Settle
<1>2. DOMAIN tasks[t] = Fields /\ Sound(tasks[t])
  BY DEF Inv, Numbered
<1>3. /\ DOMAIN task = Fields
      /\ \A f \in Fields \ {"after"} : task[f] = tasks[t][f]
  BY <1>2 DEF Fields
<1>4. /\ DOMAIN x = Fields /\ x.phase = "Acknowledging" /\ x.answer = answer
      /\ \A f \in Fields \ {"after", "phase", "answer"} : x[f] = tasks[t][f]
  BY <1>3 DEF Fields
<1> HIDE DEF x
<1>5. /\ x.kind = tasks[t].kind /\ x.request = tasks[t].request /\ x.reason = tasks[t].reason
      /\ x.continued = tasks[t].continued /\ x.projection = tasks[t].projection
  BY <1>4 DEF Fields
<1>6. Sound(x)
  BY <1>2, <1>4, <1>5 DEF Sound
<1> QED
  BY <1>1, <1>2, <1>4, <1>5, <1>6, OneTaskChanges

\* The steps of one task.
LEMMA BeginSame ==
    ASSUME Inv, NEW t \in DOMAIN tasks, Begin(t)
    PROVE  SameTasks
<1>1. DOMAIN tasks[t] = Fields /\ Sound(tasks[t]) /\ tasks[t].phase = "Queued"
  BY DEF Inv, Numbered, Begin
<1>2. CASE tasks[t].reason = "None"
  <2> DEFINE x == [tasks[t] EXCEPT !.phase = "Executing", !.after = {}]
  <2>1. tasks' = [tasks EXCEPT ![t] = x]
    BY <1>2 DEF Begin
  <2>2. /\ DOMAIN x = Fields /\ x.phase = "Executing" /\ x.reason = tasks[t].reason
        /\ x.kind = tasks[t].kind /\ x.request = tasks[t].request
        /\ x.continued = tasks[t].continued /\ x.projection = tasks[t].projection
    BY <1>1 DEF Fields
  <2> HIDE DEF x
  <2>3. Sound(x)
    BY <1>1, <1>2, <2>2 DEF Sound
  <2> QED
    BY <1>1, <2>1, <2>2, <2>3, OneTaskChanges
<1>3. CASE tasks[t].reason # "None"
  <2>1. Settle(t, [tasks[t] EXCEPT !.after = {}], ErrorOf(tasks[t].reason))
    BY <1>3 DEF Begin
  <2>2. ErrorOf(tasks[t].reason) # "Ok"
    BY DEF ErrorOf
  <2> QED
    BY <1>1, <2>1, <2>2, SettleKeepsTasks
<1> QED
  BY <1>2, <1>3

LEMMA ExecuteEndsSame ==
    ASSUME Inv, NEW t \in DOMAIN tasks, NEW answer, ExecuteEnds(t, answer)
    PROVE  SameTasks
<1>1. tasks[t].reason # "None" => ErrorOf(tasks[t].reason) # "Ok"
  BY DEF ErrorOf
<1> QED
  BY <1>1, SettleKeepsTasks DEF ExecuteEnds

LEMMA ExecuteContinuesSame ==
    ASSUME Inv, NEW t \in DOMAIN tasks, ExecuteContinues(t)
    PROVE  SameTasks
<1> DEFINE x == [tasks[t] EXCEPT !.phase = "Continuing", !.continued = TRUE,
                                 !.reason = ReasonOnReturn(t)]
<1>1. tasks' = [tasks EXCEPT ![t] = x]
  BY DEF ExecuteContinues
<1>2. DOMAIN tasks[t] = Fields /\ Sound(tasks[t]) /\ tasks[t].phase = "Executing"
  BY DEF Inv, Numbered, ExecuteContinues
<1>3. /\ DOMAIN x = Fields /\ x.phase = "Continuing" /\ x.continued = TRUE
      /\ x.kind = tasks[t].kind /\ x.request = tasks[t].request
      /\ x.answer = tasks[t].answer /\ x.projection = tasks[t].projection
      /\ x.reason \in {tasks[t].reason, "Stopped"}
      /\ tasks[t].reason # "None" => x.reason = tasks[t].reason
  BY <1>2 DEF Fields, ReasonOnReturn
<1> HIDE DEF x
<1>4. Sound(x)
  BY <1>2, <1>3 DEF Sound
<1> QED
  BY <1>1, <1>2, <1>3, <1>4, OneTaskChanges

LEMMA ContinuationEndsSame ==
    ASSUME Inv, NEW t \in DOMAIN tasks, NEW answer, ContinuationEnds(t, answer)
    PROVE  SameTasks
<1>1. tasks[t].phase = "Continuing" /\ tasks[t].continued
  BY DEF ContinuationEnds, Inv, Sound
<1>2. ContinuationAnswer(t, answer) = "Ok" => tasks[t].reason # "StreamFailure"
  BY DEF ContinuationAnswer
<1> QED
  BY <1>1, <1>2, SettleKeepsTasks DEF ContinuationEnds

LEMMA ReplaySame ==
    ASSUME Inv, NEW t \in DOMAIN tasks, Replay(t)
    PROVE  SameTasks
<1> DEFINE x == [tasks[t] EXCEPT !.phase = "Acknowledging",
                                 !.answer = tasks[tasks[t].of].answer]
<1>1. tasks' = [tasks EXCEPT ![t] = x]
  BY DEF Replay
<1>2. DOMAIN tasks[t] = Fields /\ Sound(tasks[t]) /\ tasks[t].phase = "Awaiting"
  BY DEF Inv, Numbered, Replay
<1>3. /\ DOMAIN x = Fields /\ x.phase = "Acknowledging"
      /\ x.kind = tasks[t].kind /\ x.request = tasks[t].request
  BY <1>2 DEF Fields
<1> HIDE DEF x
<1>4. Sound(x)
  BY <1>2, <1>3 DEF Sound
<1> QED
  BY <1>1, <1>2, <1>3, <1>4, OneTaskChanges

LEMMA AcknowledgedSame ==
    ASSUME Inv, NEW t \in DOMAIN tasks, NEW ok, Acknowledged(t, ok)
    PROVE  SameTasks
<1>1. PICK p : /\ tasks' = [tasks EXCEPT ![t] =
                     [tasks[t] EXCEPT !.phase = "Done", !.continued = FALSE,
                                      !.reason = "None", !.projection = p]]
               /\ Projects(t) => p \in {"Settled", "Failed"}
  BY DEF Acknowledged
<1> DEFINE x == [tasks[t] EXCEPT !.phase = "Done", !.continued = FALSE,
                                 !.reason = "None", !.projection = p]
<1>2. DOMAIN tasks[t] = Fields /\ tasks[t].phase = "Acknowledging"
  BY DEF Inv, Numbered, Acknowledged
<1>3. /\ DOMAIN x = Fields /\ x.phase = "Done" /\ x.reason = "None" /\ x.projection = p
      /\ x.kind = tasks[t].kind /\ x.request = tasks[t].request
  BY <1>2 DEF Fields
<1>4. tasks' = [tasks EXCEPT ![t] = x]
  BY <1>1
<1> HIDE DEF x
<1>5. Sound(x)
  BY <1>1, <1>3 DEF Sound, Projects
<1> QED
  BY <1>2, <1>3, <1>4, <1>5, OneTaskChanges

LEMMA TaskSteps ==
    ASSUME Inv, NEW t \in DOMAIN tasks,
           \/ Begin(t)
           \/ \E answer \in {"Ok", "Failed"} : ExecuteEnds(t, answer)
           \/ ExecuteContinues(t)
           \/ \E answer \in {"Ok", "Failed"} : ContinuationEnds(t, answer)
           \/ Replay(t)
           \/ \E ok \in BOOLEAN : Acknowledged(t, ok)
    PROVE  SameTasks /\ receipts' = receipts /\ reader' = reader
<1>1. SameTasks
  BY BeginSame, ExecuteEndsSame, ExecuteContinuesSame, ContinuationEndsSame, ReplaySame,
     AcknowledgedSame
<1>2. receipts' = receipts /\ reader' = reader
  BY DEF Begin, ExecuteEnds, ExecuteContinues, ContinuationEnds, Replay, Acknowledged
<1> QED
  BY <1>1, <1>2

\* What a reader captures: an effect that projects and is not pending is over.
LEMMA AskInv ==
    ASSUME Inv, NEW w, AskWindow(w)
    PROVE  Inv'
<1>1. tasks' = tasks /\ receipts' = receipts
  BY DEF AskWindow
<1>2. /\ reader'.window = w /\ reader'.awaits = Retained(w) /\ reader'.upTo = Len(tasks)
  BY DEF AskWindow
<1>3. \A t \in DOMAIN tasks :
         Projects(t) /\ w \in ScopesOf[tasks[t].request] =>
            t \in Retained(w) \/ tasks[t].phase = "Done"
  BY DEF Inv, Sound, Projects, Retained
<1>4. ReaderOK'
  BY <1>1, <1>2, <1>3 DEF Inv, Numbered, ReaderOK, Projects, Retained
<1> QED
  BY <1>1, <1>4 DEF Inv, Numbered, Receipted, Clears

\* Cancellations, the end of the coordinator and the reader of the window fence.
LEMMA OtherSteps ==
    ASSUME Inv,
           \/ Start
           \/ \E e \in Effects : Cancel(e)
           \/ CoreShutdown
           \/ Dispose
           \/ StreamFails
           \/ DrainStep
           \/ Recreate
           \/ ReaderPasses
           \/ ReaderFails
    PROVE  SameTasks /\ receipts' = receipts /\ reader' \in {reader, NoReader}
<1>1. tasks' = tasks => SameTasks
  BY DEF SameTasks, Inv
<1>2. ASSUME NEW e, Cancel(e)
      PROVE  SameTasks /\ receipts' = receipts /\ reader' = reader
  BY <1>2, CancelAllChanges DEF Cancel
<1>3. CASE CoreShutdown
  BY <1>3, CancelAllChanges DEF CoreShutdown
<1>4. ASSUME NEW reason, NEW every, BeginDrain(reason, every)
      PROVE  SameTasks /\ receipts' = receipts /\ reader' = reader
  BY <1>4, CancelAllChanges DEF BeginDrain
<1>5. CASE Dispose
  BY <1>4, <1>5 DEF Dispose
<1>6. CASE StreamFails
  BY <1>1, <1>4, <1>6 DEF StreamFails
<1>7. CASE Start \/ DrainStep \/ Recreate \/ ReaderPasses \/ ReaderFails
  BY <1>1, <1>7 DEF Start, DrainStep, Recreate, ReaderPasses, ReaderFails
<1> QED
  BY <1>2, <1>3, <1>5, <1>6, <1>7

LEMMA NextInv == Inv /\ [Next]_vars => Inv'
<1> SUFFICES ASSUME Inv, [Next]_vars
             PROVE  Inv'
  OBVIOUS
<1>1. CASE UNCHANGED vars
  <2>1. SameTasks
    BY <1>1 DEF vars, SameTasks, Inv
  <2> QED
    BY <1>1, <2>1, SameTasksKeepInv DEF vars
<1>2. ASSUME NEW r \in Requests, Deliver(r)
      PROVE  Inv'
  BY <1>2, DeliverInv
<1>3. ASSUME NEW w, AskWindow(w)
      PROVE  Inv'
  BY <1>3, AskInv
<1>4. CASE SameTasks /\ receipts' = receipts /\ reader' \in {reader, NoReader}
  BY <1>4, SameTasksKeepInv
<1> QED
  BY <1>1, <1>2, <1>3, <1>4, TaskSteps, OtherSteps DEF Next

LEMMA InvAlways == Spec => []Inv
  BY InitInv, NextInv, PTL DEF Spec

-----------------------------------------------------------------------------
\* An effect that destroys is executed by at most one task of the process, for any
\* effects, ids, capacities of the two ledgers and number of coordinators: two such
\* tasks would share one receipt.
THEOREM ClearsAtMostOnce == Spec => []DestructiveRunsOnce
<1>1. Inv => DestructiveRunsOnce
  BY DEF Inv, Receipted, Clears, DestructiveRunsOnce
<1> QED
  BY <1>1, InvAlways, PTL

\* An effect that was cancelled is reported as done only by the continuation it had
\* become, and never after the loss of the event stream has cancelled it.
THEOREM CancelledAreAnsweredSo == Spec => []CancelledAnswers
<1>1. Inv => CancelledAnswers
  BY DEF Inv, Sound, CancelledAnswers
<1> QED
  BY <1>1, InvAlways, PTL

\* Whatever is let through the fence of a window finds every projection executed
\* and acknowledged that was sent for the window before it asked.
THEOREM FenceLetsNothingBy == Spec => FenceIsCoherent
<1>1. Inv /\ [Next]_vars =>
         [ReaderPasses =>
            \A t \in 1..reader.upTo :
                Projects(t) /\ reader.window \in ScopesOf[tasks[t].request]
                => tasks[t].phase = "Done"]_vars
  <2> SUFFICES ASSUME Inv, ReaderPasses, NEW t \in 1..reader.upTo,
                      Projects(t), reader.window \in ScopesOf[tasks[t].request]
               PROVE  tasks[t].phase = "Done"
    OBVIOUS
  <2>1. t \in DOMAIN tasks
    BY DEF Inv, Numbered, ReaderOK
  <2>2. CASE t \in reader.awaits
    BY <2>1, <2>2 DEF ReaderPasses, Inv, Sound, Projects
  <2>3. CASE t \notin reader.awaits
    BY <2>3 DEF Inv, ReaderOK
  <2> QED
    BY <2>2, <2>3
<1> QED
  BY <1>1, InvAlways, PTL DEF Spec, FenceIsCoherent

-----------------------------------------------------------------------------
(* The lanes and the drain: the inductive invariant                        *)

Standing(x) ==
    /\ x.phase \in {"Queued", "Executing", "Continuing", "Awaiting", "Acknowledging", "Done"}
    /\ x.phase = "Queued" => x.kind = "First" /\ ~x.continued

Shares(t, v) == ScopesOf[tasks[t].request] \cap ScopesOf[tasks[v].request]

\* One of the two has to wait for the other.
Meets(t, v) ==
    Shares(t, v) # {} \/ "app" \in ScopesOf[tasks[t].request] \cup ScopesOf[tasks[v].request]

\* A lane ends in an effect with that scope, which no effect on the lane outlives.
LanesEnd ==
    /\ \A k \in DOMAIN lanes :
          /\ lanes[k] \in DOMAIN tasks /\ tasks[lanes[k]].kind = "First"
          /\ k \in ScopesOf[tasks[lanes[k]].request]
    /\ \A t \in DOMAIN tasks : OnLane(t) =>
          \A k \in ScopesOf[tasks[t].request] : k \in DOMAIN lanes /\ t <= lanes[k]

\* As long as an effect is on a lane, every later one that it meets is queued.
InTurn ==
    \A t, v \in DOMAIN tasks :
        OnLane(t) /\ t < v /\ tasks[v].kind = "First" /\ Meets(t, v) =>
           tasks[v].phase = "Queued"

\* For each effect before it that it meets, a queued effect awaits that one or
\* one that came in between on the same lane.
Awaited ==
    \A t, v \in DOMAIN tasks :
        OnLane(t) /\ t < v /\ tasks[v].phase = "Queued" /\ Meets(t, v) =>
           \E u \in tasks[v].after \cap DOMAIN tasks :
              /\ t <= u /\ tasks[u].kind = "First" /\ Shares(t, u) # {}

\* The first stage of a drain awaits the ends of all lanes; after it they are empty.
DrainKnows ==
    state = "draining" =>
       \/ drain.stage = "Lanes" /\ Range(lanes) \subseteq drain.awaits
       \/ drain.stage = "Terminal" /\ \A t \in DOMAIN tasks : ~OnLane(t)

LaneInv ==
    /\ \A t \in DOMAIN tasks : Standing(tasks[t])
    /\ LanesEnd
    /\ InTurn
    /\ Awaited
    /\ DrainKnows
    /\ DisposedIsQuiet

LEMMA InitLaneInv == Init => LaneInv
  BY DEF Init, Fresh, LaneInv, LanesEnd, InTurn, Awaited, DrainKnows, DisposedIsQuiet

\* No effect comes to a lane or back to a queue, and none leaves its queue before
\* those that it awaits are off their lanes.
Onward ==
    \A t \in DOMAIN tasks :
        /\ Standing(tasks'[t])
        /\ OnLane(t)' => OnLane(t)
        /\ tasks'[t].phase = "Queued" =>
              tasks[t].phase = "Queued" /\ tasks'[t].after = tasks[t].after
        /\ tasks[t].phase = "Queued" /\ tasks'[t].phase # "Queued" =>
              \A u \in tasks[t].after : ~OnLane(u)

LEMMA QueuedIsOnLane ==
    ASSUME LaneInv, NEW t \in DOMAIN tasks, tasks[t].phase = "Queued"
    PROVE  OnLane(t)
  BY DEF LaneInv, Standing, OnLane

\* Of what a queued effect awaits, something is on a lane as long as an effect
\* before it that it meets is.
LEMMA AwaitedIsOnLane ==
    ASSUME Inv, LaneInv, NEW t \in DOMAIN tasks, NEW v \in DOMAIN tasks,
           OnLane(t), t < v, tasks[v].phase = "Queued", Meets(t, v)
    PROVE  \E u \in tasks[v].after : OnLane(u)
<1>1. PICK u \in tasks[v].after \cap DOMAIN tasks :
         t <= u /\ tasks[u].kind = "First" /\ Shares(t, u) # {}
  BY DEF LaneInv, Awaited
<1>2. CASE u = t
  BY <1>1, <1>2
<1>3. CASE t < u
  <2>1. tasks[u].phase = "Queued"
    BY <1>1, <1>3 DEF LaneInv, InTurn, Meets
  <2> QED
    BY <1>1, <2>1, QueuedIsOnLane
<1> QED
  BY <1>1, <1>2, <1>3 DEF Inv, Numbered

\* The order of a lane outlasts such a step.
LEMMA OnwardInTurn ==
    ASSUME Inv, LaneInv, SameTasks, Onward
    PROVE  InTurn' /\ Awaited' /\ \A t \in DOMAIN tasks' : Standing(tasks'[t])
<1>0. \A t, v \in DOMAIN tasks :
         (Shares(t, v)' = Shares(t, v)) /\ (Meets(t, v)' <=> Meets(t, v))
  BY DEF SameTasks, Shares, Meets
<1>1. ASSUME NEW t \in DOMAIN tasks, NEW v \in DOMAIN tasks,
             OnLane(t)', t < v, tasks'[v].kind = "First", Meets(t, v)'
      PROVE  tasks'[v].phase = "Queued"
  <2>1. OnLane(t) /\ tasks[v].kind = "First" /\ Meets(t, v)
    BY <1>0, <1>1 DEF SameTasks, Onward
  <2>2. tasks[v].phase = "Queued"
    BY <1>1, <2>1 DEF LaneInv, InTurn
  <2>3. \E u \in tasks[v].after : OnLane(u)
    BY <1>1, <2>1, <2>2, AwaitedIsOnLane
  <2> QED
    BY <2>2, <2>3 DEF Onward
<1>2. ASSUME NEW t \in DOMAIN tasks, NEW v \in DOMAIN tasks,
             OnLane(t)', t < v, tasks'[v].phase = "Queued", Meets(t, v)'
      PROVE  \E u \in tasks'[v].after \cap DOMAIN tasks :
                t <= u /\ tasks'[u].kind = "First" /\ Shares(t, u)' # {}
  <2>1. /\ OnLane(t) /\ tasks[v].phase = "Queued" /\ tasks'[v].after = tasks[v].after
        /\ Meets(t, v)
    BY <1>0, <1>2 DEF SameTasks, Onward
  <2>2. PICK u \in tasks[v].after \cap DOMAIN tasks :
           t <= u /\ tasks[u].kind = "First" /\ Shares(t, u) # {}
    BY <1>2, <2>1 DEF LaneInv, Awaited
  <2> QED
    BY <1>0, <2>1, <2>2 DEF SameTasks
<1>3. \A t \in DOMAIN tasks' : Standing(tasks'[t])
  BY DEF SameTasks, Onward
<1> QED
  BY <1>1, <1>2, <1>3 DEF SameTasks, InTurn, Awaited

\* The task s leaves its lanes, or none does.
Leaving(s) == s \in DOMAIN tasks /\ tasks[s].phase # "Queued" /\ ~OnLane(s)' /\ lanes' = Without(s)

LEMMA OnwardLanesEnd ==
    ASSUME Inv, LaneInv, SameTasks, Onward, lanes' = lanes \/ \E s \in DOMAIN tasks : Leaving(s)
    PROVE  LanesEnd' /\ Range(lanes') \subseteq Range(lanes)
<1>1. CASE lanes' = lanes
  <2>1. LanesEnd'
    BY <1>1 DEF LaneInv, LanesEnd, SameTasks, Onward
  <2> QED
    BY <1>1, <2>1
<1>2. ASSUME NEW s \in DOMAIN tasks, Leaving(s)
      PROVE  LanesEnd' /\ Range(lanes') \subseteq Range(lanes)
  <2>1. /\ DOMAIN lanes' = {k \in DOMAIN lanes : lanes[k] # s}
        /\ \A k \in DOMAIN lanes' : lanes'[k] = lanes[k]
    BY <1>2 DEF Leaving, Without, Restrict
  <2>2. ASSUME NEW t \in DOMAIN tasks, OnLane(t)', NEW k \in ScopesOf[tasks'[t].request]
        PROVE  k \in DOMAIN lanes' /\ t <= lanes'[k]
    <3>1. OnLane(t) /\ k \in ScopesOf[tasks[t].request] /\ t # s
      BY <1>2, <2>2 DEF SameTasks, Onward, Leaving
    <3>2. k \in DOMAIN lanes /\ t <= lanes[k] /\ tasks[lanes[k]].kind = "First"
          /\ lanes[k] \in DOMAIN tasks /\ k \in ScopesOf[tasks[lanes[k]].request]
      BY <3>1 DEF LaneInv, LanesEnd
    <3>3. ASSUME lanes[k] = s
          PROVE  FALSE
      <4>1. t < s
        BY <3>1, <3>2, <3>3 DEF Inv, Numbered
      <4>2. Meets(t, s)
        BY <3>1, <3>2, <3>3 DEF Shares, Meets
      <4>3. tasks[s].phase = "Queued"
        BY <3>1, <3>2, <3>3, <4>1, <4>2 DEF LaneInv, InTurn
      <4> QED
        BY <1>2, <4>3 DEF Leaving
    <3> QED
      BY <2>1, <3>2, <3>3
  <2>3. LanesEnd'
    BY <2>1, <2>2 DEF LaneInv, LanesEnd, SameTasks
  <2>4. Range(lanes') \subseteq Range(lanes)
    BY <2>1 DEF Range
  <2> QED
    BY <2>3, <2>4
<1> QED
  BY <1>1, <1>2

LEMMA OnwardLaneInv ==
    ASSUME Inv, LaneInv, SameTasks, Onward, lanes' = lanes \/ \E s \in DOMAIN tasks : Leaving(s),
           state' = state, drain' = drain
    PROVE  LaneInv'
<1>1. DrainKnows'
  BY OnwardLanesEnd DEF LaneInv, DrainKnows, SameTasks, Onward
<1>2. DisposedIsQuiet'
  BY DEF LaneInv, DisposedIsQuiet, SameTasks
<1> QED
  BY <1>1, <1>2, OnwardInTurn, OnwardLanesEnd DEF LaneInv

\* A step of one task: it leaves a queue in its turn, and comes to no lane.
LEMMA OneTaskOnward ==
    ASSUME Inv, LaneInv, NEW t \in DOMAIN tasks, NEW x, tasks' = [tasks EXCEPT ![t] = x],
           Standing(x), x.phase # "Queued", x.kind = tasks[t].kind,
           x.phase \in {"Executing", "Acknowledging"} /\ ~x.continued /\ x.kind = "First" =>
              OnLane(t),
           tasks[t].phase = "Queued" => \A u \in tasks[t].after : ~OnLane(u)
    PROVE  Onward
<1>1. tasks'[t] = x /\ \A u \in DOMAIN tasks : u # t => tasks'[u] = tasks[u]
  OBVIOUS
<1>2. OnLane(t)' => OnLane(t)
  BY <1>1 DEF OnLane
<1>3. \A u \in DOMAIN tasks : u # t => (OnLane(u)' <=> OnLane(u))
  BY <1>1 DEF OnLane
<1> QED
  BY <1>1, <1>2, <1>3 DEF Onward, LaneInv

LEMMA SettleOnward ==
    ASSUME Inv, LaneInv, NEW t \in DOMAIN tasks, NEW task, NEW answer, Settle(t, task, answer),
           task \in {tasks[t], [tasks[t] EXCEPT !.after = {}]},
           tasks[t].phase \in {"Queued", "Executing", "Continuing"},
           tasks[t].phase = "Queued" => \A u \in tasks[t].after : ~OnLane(u)
    PROVE  Onward
<1> DEFINE x == [task EXCEPT !.phase = "Acknowledging", !.answer = answer]
<1>1. tasks' = [tasks EXCEPT ![t] = x]
  BY DEF Settle
<1>2. DOMAIN tasks[t] = Fields /\ Sound(tasks[t])
  BY DEF Inv, Numbered
<1>3. /\ x.phase = "Acknowledging" /\ x.kind = tasks[t].kind
      /\ x.continued = tasks[t].continued
  BY <1>2 DEF Fields
<1> HIDE DEF x
<1>4. x.kind = "First" /\ ~x.continued => OnLane(t)
  BY <1>2, <1>3 DEF OnLane, Sound
<1> QED
  BY <1>1, <1>3, <1>4, OneTaskOnward DEF Standing

LEMMA BeginOnward ==
    ASSUME Inv, LaneInv, NEW t \in DOMAIN tasks, Begin(t)
    PROVE  Onward
<1>1. DOMAIN tasks[t] = Fields /\ tasks[t].phase = "Queued" /\ OnLane(t)
  BY QueuedIsOnLane DEF Inv, Numbered, Begin
<1>2. \A u \in tasks[t].after : ~OnLane(u)
  BY DEF Begin
<1>3. CASE tasks[t].reason = "None"
  <2> DEFINE x == [tasks[t] EXCEPT !.phase = "Executing", !.after = {}]
  <2>1. tasks' = [tasks EXCEPT ![t] = x]
    BY <1>3 DEF Begin
  <2>2. x.phase = "Executing" /\ x.kind = tasks[t].kind
    BY <1>1 DEF Fields
  <2> HIDE DEF x
  <2> QED
    BY <1>1, <1>2, <2>1, <2>2, OneTaskOnward DEF Standing
<1>4. CASE tasks[t].reason # "None"
  <2>1. Settle(t, [tasks[t] EXCEPT !.after = {}], ErrorOf(tasks[t].reason))
    BY <1>4 DEF Begin
  <2> QED
    BY <1>1, <1>2, <2>1, SettleOnward
<1> QED
  BY <1>3, <1>4

LEMMA ContinuesOnward ==
    ASSUME Inv, LaneInv, NEW t \in DOMAIN tasks, ExecuteContinues(t)
    PROVE  Onward /\ Leaving(t)
<1> DEFINE x == [tasks[t] EXCEPT !.phase = "Continuing", !.continued = TRUE,
                                 !.reason = ReasonOnReturn(t)]
<1>1. tasks' = [tasks EXCEPT ![t] = x]
  BY DEF ExecuteContinues
<1>2. DOMAIN tasks[t] = Fields /\ tasks[t].phase = "Executing"
  BY DEF Inv, Numbered, ExecuteContinues
<1>3. x.phase = "Continuing" /\ x.kind = tasks[t].kind
  BY <1>2 DEF Fields
<1> HIDE DEF x
<1>4. Onward
  BY <1>1, <1>2, <1>3, OneTaskOnward DEF Standing
<1>5. ~OnLane(t)'
  BY <1>1, <1>3 DEF OnLane
<1> QED
  BY <1>2, <1>4, <1>5 DEF Leaving, ExecuteContinues

LEMMA ReplayOnward ==
    ASSUME Inv, LaneInv, NEW t \in DOMAIN tasks, Replay(t)
    PROVE  Onward
<1> DEFINE x == [tasks[t] EXCEPT !.phase = "Acknowledging",
                                 !.answer = tasks[tasks[t].of].answer]
<1>1. tasks' = [tasks EXCEPT ![t] = x]
  BY DEF Replay
<1>2. DOMAIN tasks[t] = Fields /\ Sound(tasks[t]) /\ tasks[t].phase = "Awaiting"
  BY DEF Inv, Numbered, Replay
<1>3. /\ x.phase = "Acknowledging" /\ x.kind = tasks[t].kind
      /\ x.kind # "First"
  BY <1>2 DEF Fields, Sound
<1> HIDE DEF x
<1> QED
  BY <1>1, <1>2, <1>3, OneTaskOnward DEF Standing

LEMMA AcknowledgedOnward ==
    ASSUME Inv, LaneInv, NEW t \in DOMAIN tasks, NEW ok, Acknowledged(t, ok)
    PROVE  Onward /\ (lanes' = lanes \/ Leaving(t))
<1>1. PICK p : tasks' = [tasks EXCEPT ![t] =
                     [tasks[t] EXCEPT !.phase = "Done", !.continued = FALSE,
                                      !.reason = "None", !.projection = p]]
  BY DEF Acknowledged
<1> DEFINE x == [tasks[t] EXCEPT !.phase = "Done", !.continued = FALSE,
                                 !.reason = "None", !.projection = p]
<1>2. DOMAIN tasks[t] = Fields /\ tasks[t].phase = "Acknowledging"
  BY DEF Inv, Numbered, Acknowledged
<1>3. x.phase = "Done" /\ x.kind = tasks[t].kind
  BY <1>2 DEF Fields
<1>4. tasks' = [tasks EXCEPT ![t] = x]
  BY <1>1
<1> HIDE DEF x
<1>5. Onward
  BY <1>2, <1>3, <1>4, OneTaskOnward DEF Standing
<1>6. ~OnLane(t)'
  BY <1>3, <1>4 DEF OnLane
<1> QED
  BY <1>2, <1>5, <1>6 DEF Leaving, Acknowledged

LEMMA TaskLaneInv ==
    ASSUME Inv, LaneInv, NEW t \in DOMAIN tasks,
           \/ Begin(t)
           \/ \E answer \in {"Ok", "Failed"} : ExecuteEnds(t, answer)
           \/ ExecuteContinues(t)
           \/ \E answer \in {"Ok", "Failed"} : ContinuationEnds(t, answer)
           \/ Replay(t)
           \/ \E ok \in BOOLEAN : Acknowledged(t, ok)
    PROVE  LaneInv'
<1>1. SameTasks
  BY TaskSteps
<1>2. state' = state /\ drain' = drain
  BY DEF Begin, ExecuteEnds, ExecuteContinues, ContinuationEnds, Replay, Acknowledged
<1>3. CASE Begin(t)
  BY <1>1, <1>2, <1>3, BeginOnward, OnwardLaneInv DEF Begin
<1>4. ASSUME NEW answer, ExecuteEnds(t, answer)
      PROVE  LaneInv'
  <2>1. Onward
    BY <1>4, SettleOnward DEF ExecuteEnds
  <2>2. lanes' = lanes
    BY <1>4 DEF ExecuteEnds
  <2> QED
    BY <1>1, <1>2, <2>1, <2>2, OnwardLaneInv
<1>5. CASE ExecuteContinues(t)
  BY <1>1, <1>2, <1>5, ContinuesOnward, OnwardLaneInv
<1>6. ASSUME NEW answer, ContinuationEnds(t, answer)
      PROVE  LaneInv'
  <2>1. Onward
    BY <1>6, SettleOnward DEF ContinuationEnds
  <2>2. lanes' = lanes
    BY <1>6 DEF ContinuationEnds
  <2> QED
    BY <1>1, <1>2, <2>1, <2>2, OnwardLaneInv
<1>7. CASE Replay(t)
  BY <1>1, <1>2, <1>7, ReplayOnward, OnwardLaneInv DEF Replay
<1>8. ASSUME NEW ok, Acknowledged(t, ok)
      PROVE  LaneInv'
  BY <1>1, <1>2, <1>8, AcknowledgedOnward, OnwardLaneInv
<1> QED
  BY <1>3, <1>4, <1>5, <1>6, <1>7, <1>8

LEMMA CancelAllOnward ==
    ASSUME Inv, LaneInv, NEW which, NEW reason, CancelAll(which, reason)
    PROVE  SameTasks /\ Onward
<1>1. ASSUME NEW t \in DOMAIN tasks
      PROVE  /\ tasks'[t].phase = tasks[t].phase /\ tasks'[t].kind = tasks[t].kind
             /\ tasks'[t].continued = tasks[t].continued /\ tasks'[t].after = tasks[t].after
  BY DEF CancelAll, Inv, Numbered, Fields
<1>2. \A t \in DOMAIN tasks : OnLane(t)' <=> OnLane(t)
  BY <1>1 DEF OnLane
<1> QED
  BY <1>1, <1>2, CancelAllChanges DEF Onward, LaneInv, Standing

LEMMA BeginDrainLaneInv ==
    ASSUME Inv, LaneInv, NEW reason, NEW every, BeginDrain(reason, every)
    PROVE  LaneInv'
<1>1. SameTasks /\ Onward
  BY CancelAllOnward DEF BeginDrain
<1>2. lanes' = lanes
  BY DEF BeginDrain
<1>3. DrainKnows' /\ DisposedIsQuiet'
  BY DEF BeginDrain, DrainKnows, DisposedIsQuiet, LaneTails
<1> QED
  BY <1>1, <1>2, <1>3, OnwardInTurn, OnwardLanesEnd DEF LaneInv

\* Every task came from the Core.
Requested == \A t \in DOMAIN tasks : tasks[t].request \in Requests

\* What is on a lane is its end, or is behind the end's back in its queue.
LEMMA LanesHaveEnds ==
    ASSUME Inv, LaneInv, RequestAssumption, NEW t \in DOMAIN tasks, OnLane(t),
           tasks[t].request \in Requests
    PROVE  \E u \in Range(lanes) : u \in DOMAIN tasks /\ OnLane(u)
<1>1. PICK k \in ScopesOf[tasks[t].request] : TRUE
  BY DEF RequestAssumption
<1>2. /\ k \in DOMAIN lanes /\ t <= lanes[k] /\ lanes[k] \in DOMAIN tasks
      /\ tasks[lanes[k]].kind = "First" /\ k \in ScopesOf[tasks[lanes[k]].request]
  BY <1>1 DEF LaneInv, LanesEnd
<1>3. CASE t = lanes[k]
  BY <1>2, <1>3 DEF Range
<1>4. CASE t < lanes[k]
  <2>1. Meets(t, lanes[k])
    BY <1>1, <1>2 DEF Shares, Meets
  <2>2. tasks[lanes[k]].phase = "Queued"
    BY <1>2, <1>4, <2>1 DEF LaneInv, InTurn
  <2>3. OnLane(lanes[k])
    BY <1>2, <2>2, QueuedIsOnLane
  <2> QED
    BY <1>2, <2>3 DEF Range
<1> QED
  BY <1>2, <1>3, <1>4 DEF Inv, Numbered

LEMMA UnderWayIsSomewhere ==
    ASSUME Inv, LaneInv, NEW t \in DOMAIN tasks, tasks[t].phase # "Done"
    PROVE  OnLane(t) \/ OffLane(t)
  BY DEF Inv, Sound, LaneInv, Standing, OnLane, OffLane

LEMMA DrainStepLaneInv ==
    ASSUME Inv, LaneInv, RequestAssumption, Requested, DrainStep
    PROVE  LaneInv'
<1>1. \A t \in DOMAIN tasks : ~OnLane(t)
  <2>1. CASE drain.stage = "Lanes"
    BY <2>1, LanesHaveEnds DEF Requested, DrainStep, LaneInv, DrainKnows
  <2>2. CASE drain.stage = "Terminal"
    BY <2>2 DEF DrainStep, LaneInv, DrainKnows
  <2> QED
    BY <2>1, <2>2 DEF DrainStep
<1>2. tasks' = tasks
  BY DEF DrainStep
<1>3. \A t \in DOMAIN tasks' : ~OnLane(t)'
  BY <1>1, <1>2 DEF OnLane
<1>4. InTurn' /\ Awaited' /\ \A t \in DOMAIN tasks' : Standing(tasks'[t])
  BY <1>2, <1>3 DEF LaneInv, InTurn, Awaited
<1>5. CASE Terminals # {}
  <2>1. /\ state' = "draining" /\ drain' = [stage |-> "Terminal", awaits |-> Terminals]
        /\ lanes' = lanes
    BY <1>5 DEF DrainStep
  <2>2. drain'.stage = "Terminal"
    BY <2>1
  <2>3. LanesEnd'
    BY <1>2, <1>3, <2>1 DEF LaneInv, LanesEnd
  <2> QED
    BY <1>3, <1>4, <2>1, <2>2, <2>3 DEF LaneInv, DrainKnows, DisposedIsQuiet
<1>6. CASE Terminals = {}
  <2>1. state' = "disposed" /\ lanes' = <<>>
    BY <1>6 DEF DrainStep
  <2>2. \A t \in DOMAIN tasks : tasks[t].phase = "Done"
    BY <1>1, <1>6, UnderWayIsSomewhere DEF Terminals
  <2>3. DOMAIN lanes' = {}
    BY <2>1
  <2> QED
    BY <1>2, <1>3, <1>4, <2>1, <2>2, <2>3 DEF LaneInv, LanesEnd, DrainKnows, DisposedIsQuiet
<1> QED
  BY <1>5, <1>6

\* A delivery comes last on its lanes, and awaits their ends.
LEMMA DeliverLaneInv ==
    ASSUME Inv, LaneInv, RequestAssumption, Requested, NEW r \in Requests, Deliver(r)
    PROVE  LaneInv'
<1>0. PICK new : new = Len(tasks) + 1
  OBVIOUS
<1>1. state' = "open" /\ state = "open"
  BY DEF Deliver
<1>2. DrainKnows' /\ DisposedIsQuiet'
  BY <1>1 DEF DrainKnows, DisposedIsQuiet
<1>3. ASSUME NEW x, tasks' = Append(tasks, x)
      PROVE  /\ new \in Nat /\ new \notin DOMAIN tasks /\ \A t \in DOMAIN tasks : t \in Nat /\ t < new
             /\ DOMAIN tasks' = DOMAIN tasks \cup {new} /\ tasks'[new] = x
             /\ \A t \in DOMAIN tasks : tasks'[t] = tasks[t] /\ (OnLane(t)' <=> OnLane(t))
  <2>1. /\ new \in Nat /\ new \notin DOMAIN tasks /\ \A t \in DOMAIN tasks : t \in Nat /\ t < new
        /\ DOMAIN tasks' = DOMAIN tasks \cup {new} /\ tasks'[new] = x
        /\ \A t \in DOMAIN tasks : tasks'[t] = tasks[t]
    BY <1>0, <1>3 DEF Inv, Numbered
  <2> QED
    BY <2>1 DEF OnLane
<1>4. ASSUME NEW x, tasks' = Append(tasks, x), x.kind # "First",
             x.phase \in {"Awaiting", "Acknowledging"}, lanes' = lanes
      PROVE  LaneInv'
  <2>1. ~OnLane(new)'
    BY <1>3, <1>4 DEF OnLane
  <2>2. \A t \in DOMAIN tasks' : Standing(tasks'[t])
    BY <1>3, <1>4 DEF LaneInv, Standing
  <2>3. LanesEnd'
    BY <1>3, <1>4, <2>1 DEF LaneInv, LanesEnd
  <2>4. ASSUME NEW t \in DOMAIN tasks', NEW v \in DOMAIN tasks',
               OnLane(t)', t < v, tasks'[v].kind = "First", Meets(t, v)'
        PROVE  tasks'[v].phase = "Queued"
    <3>1. t \in DOMAIN tasks /\ v \in DOMAIN tasks
      BY <1>3, <1>4, <2>1, <2>4
    <3>2. OnLane(t) /\ tasks[v].kind = "First" /\ Meets(t, v)
      BY <1>3, <1>4, <2>4, <3>1 DEF Shares, Meets
    <3>3. tasks[v].phase = "Queued"
      BY <2>4, <3>1, <3>2 DEF LaneInv, InTurn
    <3> QED
      BY <1>3, <1>4, <3>1, <3>3
  <2>5. ASSUME NEW t \in DOMAIN tasks', NEW v \in DOMAIN tasks',
               OnLane(t)', t < v, tasks'[v].phase = "Queued", Meets(t, v)'
        PROVE  \E u \in tasks'[v].after \cap DOMAIN tasks' :
                  t <= u /\ tasks'[u].kind = "First" /\ Shares(t, u)' # {}
    <3>1. t \in DOMAIN tasks /\ v \in DOMAIN tasks
      BY <1>3, <1>4, <2>1, <2>5
    <3>2. OnLane(t) /\ tasks[v].phase = "Queued" /\ Meets(t, v)
      BY <1>3, <1>4, <2>5, <3>1 DEF Shares, Meets
    <3>3. PICK u \in tasks[v].after \cap DOMAIN tasks :
             t <= u /\ tasks[u].kind = "First" /\ Shares(t, u) # {}
      BY <2>5, <3>1, <3>2 DEF LaneInv, Awaited
    <3>4. tasks'[v] = tasks[v] /\ tasks'[u] = tasks[u] /\ Shares(t, u)' = Shares(t, u)
      BY <1>3, <1>4, <3>1, <3>3 DEF Shares
    <3> QED
      BY <1>3, <1>4, <3>3, <3>4
  <2>6. Awaited'
    BY <2>5 DEF Awaited
  <2> QED
    BY <1>2, <2>2, <2>3, <2>4, <2>6 DEF LaneInv, InTurn
<1>5. CASE /\ tasks' = Append(tasks, NewTask(r, "First", 0, Predecessors(ScopesOf[r])))
           /\ lanes' = [k \in DOMAIN lanes \cup ScopesOf[r] |->
                           IF k \in ScopesOf[r] THEN new ELSE lanes[k]]
  <2> DEFINE x == NewTask(r, "First", 0, Predecessors(ScopesOf[r]))
  <2>1. /\ x.request = r /\ x.kind = "First" /\ x.phase = "Queued" /\ ~x.continued
        /\ x.after = Predecessors(ScopesOf[r])
    BY DEF NewTask
  <2>2. tasks' = Append(tasks, x)
    BY <1>5
  <2> HIDE DEF x
  <2>3. /\ new \in Nat /\ new \notin DOMAIN tasks /\ \A t \in DOMAIN tasks : t \in Nat /\ t < new
        /\ DOMAIN tasks' = DOMAIN tasks \cup {new} /\ tasks'[new] = x
        /\ \A t \in DOMAIN tasks : tasks'[t] = tasks[t] /\ (OnLane(t)' <=> OnLane(t))
    BY <1>3, <2>2
  <2>4. \A t \in DOMAIN tasks' : Standing(tasks'[t])
    BY <2>1, <2>3 DEF LaneInv, Standing
  <2>5. LanesEnd'
    BY <1>5, <2>1, <2>3 DEF LaneInv, LanesEnd
  <2>a. \A t, v \in DOMAIN tasks' : t < v => t \in DOMAIN tasks
    BY <2>3
  <2>6. ASSUME NEW t \in DOMAIN tasks', NEW v \in DOMAIN tasks',
               OnLane(t)', t < v, tasks'[v].kind = "First", Meets(t, v)'
        PROVE  tasks'[v].phase = "Queued"
    <3>1. t \in DOMAIN tasks /\ OnLane(t)
      BY <2>3, <2>6, <2>a
    <3>2. CASE v = new
      BY <2>1, <2>3, <3>2
    <3>3. CASE v \in DOMAIN tasks
      <4>1. tasks[v].kind = "First" /\ Meets(t, v)
        BY <2>3, <2>6, <3>1, <3>3 DEF Shares, Meets
      <4>2. tasks[v].phase = "Queued"
        BY <2>6, <3>1, <3>3, <4>1 DEF LaneInv, InTurn
      <4> QED
        BY <2>3, <3>3, <4>2
    <3> QED
      BY <2>3, <3>2, <3>3
  <2>7. ASSUME NEW t \in DOMAIN tasks', NEW v \in DOMAIN tasks',
               OnLane(t)', t < v, tasks'[v].phase = "Queued", Meets(t, v)'
        PROVE  \E u \in tasks'[v].after \cap DOMAIN tasks' :
                  t <= u /\ tasks'[u].kind = "First" /\ Shares(t, u)' # {}
    <3>1. t \in DOMAIN tasks /\ OnLane(t) /\ tasks'[t] = tasks[t]
      BY <2>3, <2>7, <2>a
    <3>2. CASE v = new
      <4>1. \/ Shares(t, new)' # {}
            \/ "app" \in ScopesOf[tasks[t].request] \cup ScopesOf[r]
        BY <2>1, <2>3, <2>7, <3>1, <3>2 DEF Meets
      <4>2. Shares(t, new)' = ScopesOf[tasks[t].request] \cap ScopesOf[r]
        BY <2>1, <2>3, <3>1 DEF Shares
      <4>3. ScopesOf[tasks[t].request] # {} /\ ScopesOf[tasks[t].request] \subseteq Scopes
        BY <3>1 DEF RequestAssumption, Requested, Scopes
      <4>4. PICK k \in ScopesOf[tasks[t].request] :
               k \in ScopesOf[r] \/ k = "app" \/ "app" \in ScopesOf[r]
        BY <4>1, <4>2, <4>3
      <4>5. k \in DOMAIN lanes
        BY <3>1 DEF LaneInv, LanesEnd
      <4>6. PICK u \in {lanes[k]} : TRUE
        OBVIOUS
      <4>7. /\ t <= u /\ u \in DOMAIN tasks
            /\ tasks[u].kind = "First" /\ k \in ScopesOf[tasks[u].request]
        BY <3>1, <4>5, <4>6 DEF LaneInv, LanesEnd
      <4>8. u \in Predecessors(ScopesOf[r])
        BY <4>3, <4>4, <4>5, <4>6 DEF Predecessors
      <4>9. Shares(t, u)' # {}
        BY <2>3, <3>1, <4>7 DEF Shares
      <4> QED
        BY <2>1, <2>3, <3>2, <4>7, <4>8, <4>9
    <3>3. CASE v \in DOMAIN tasks
      <4>1. tasks[v].phase = "Queued" /\ Meets(t, v)
        BY <2>3, <2>7, <3>1, <3>3 DEF Shares, Meets
      <4>2. PICK u \in tasks[v].after \cap DOMAIN tasks :
               t <= u /\ tasks[u].kind = "First" /\ Shares(t, u) # {}
        BY <2>7, <3>1, <3>3, <4>1 DEF LaneInv, Awaited
      <4>3. tasks'[v] = tasks[v] /\ tasks'[u] = tasks[u] /\ Shares(t, u)' = Shares(t, u)
        BY <2>3, <3>1, <3>3, <4>2 DEF Shares
      <4> QED
        BY <2>3, <4>2, <4>3
    <3> QED
      BY <2>3, <3>2, <3>3
  <2>8. Awaited'
    BY <2>7 DEF Awaited
  <2> QED
    BY <1>2, <2>4, <2>5, <2>6, <2>8 DEF LaneInv, InTurn
<1>6. \/ /\ tasks' = Append(tasks, NewTask(r, "First", 0, Predecessors(ScopesOf[r])))
         /\ lanes' = [k \in DOMAIN lanes \cup ScopesOf[r] |->
                         IF k \in ScopesOf[r] THEN new ELSE lanes[k]]
      \/ /\ lanes' = lanes
         /\ \E x : /\ tasks' = Append(tasks, x) /\ x.kind # "First"
                   /\ x.phase \in {"Awaiting", "Acknowledging"}
  BY <1>0 DEF Deliver, NewTask
<1> QED
  BY <1>4, <1>5, <1>6

LEMMA IdleLaneInv ==
    ASSUME LaneInv, tasks' = tasks, lanes' = lanes,
           \/ state' \in {"idle", "open"}
           \/ state' = state /\ drain' = drain
    PROVE  LaneInv'
<1>1. /\ \A t \in DOMAIN tasks : OnLane(t)' <=> OnLane(t)
      /\ \A t, v \in DOMAIN tasks :
            (Shares(t, v)' = Shares(t, v)) /\ (Meets(t, v)' <=> Meets(t, v))
  BY DEF OnLane, Shares, Meets
<1> QED
  BY <1>1 DEF LaneInv, LanesEnd, InTurn, Awaited, DrainKnows, DisposedIsQuiet

LEMMA NextLaneInv ==
    ASSUME Inv, LaneInv, Requested, [Next]_vars
    PROVE  LaneInv' /\ Requested'
<1>1. CASE UNCHANGED vars
  BY <1>1, IdleLaneInv DEF vars, Requested
<1>2. ASSUME NEW r \in Requests, Deliver(r)
      PROVE  LaneInv' /\ Requested'
  <2>1. PICK x : tasks' = Append(tasks, x) /\ x.request = r
    BY <1>2 DEF Deliver, NewTask
  <2>2. Requested'
    BY <2>1 DEF Requested, Inv, Numbered
  <2> QED
    BY <1>2, <2>2, DeliverLaneInv, RequestAssumption
<1>3. ASSUME NEW t \in DOMAIN tasks,
             \/ Begin(t)
             \/ \E answer \in {"Ok", "Failed"} : ExecuteEnds(t, answer)
             \/ ExecuteContinues(t)
             \/ \E answer \in {"Ok", "Failed"} : ContinuationEnds(t, answer)
             \/ Replay(t)
             \/ \E ok \in BOOLEAN : Acknowledged(t, ok)
      PROVE  LaneInv' /\ Requested'
  BY <1>3, TaskLaneInv, TaskSteps DEF SameTasks, Requested
<1>4. ASSUME NEW which, NEW reason, CancelAll(which, reason),
             UNCHANGED <<state, lanes, drain>>
      PROVE  LaneInv' /\ Requested'
  BY <1>4, CancelAllOnward, OnwardLaneInv DEF SameTasks, Requested
<1>5. ASSUME NEW reason, NEW every, BeginDrain(reason, every)
      PROVE  LaneInv' /\ Requested'
  BY <1>5, CancelAllOnward, BeginDrainLaneInv DEF BeginDrain, SameTasks, Requested
<1>6. CASE \E e \in Effects : Cancel(e)
  BY <1>4, <1>6 DEF Cancel
<1>7. CASE CoreShutdown
  BY <1>4, <1>7 DEF CoreShutdown
<1>8. CASE Dispose
  BY <1>5, <1>8 DEF Dispose
<1>9. CASE StreamFails
  BY <1>5, <1>9, IdleLaneInv DEF StreamFails, Requested
<1>10. CASE DrainStep
  BY <1>10, DrainStepLaneInv, RequestAssumption DEF DrainStep, Requested
<1>11. CASE Start \/ Recreate \/ ReaderPasses \/ ReaderFails \/ \E w : AskWindow(w)
  BY <1>11, IdleLaneInv DEF Start, Recreate, ReaderPasses, ReaderFails, AskWindow, Requested
<1> QED
  BY <1>1, <1>2, <1>3, <1>6, <1>7, <1>8, <1>9, <1>10, <1>11 DEF Next

\* A coordinator that reports that it has stopped leaves no effect running or waiting
\* and none unanswered, for any effects, scopes, capacities and coordinators: it awaits
\* the ends of the lanes, which no effect on a lane outlives, and then every
\* continuation, replay and refusal.
THEOREM StoppedIsQuiet == Spec => []DisposedIsQuiet
<1>1. Init => Inv /\ LaneInv /\ Requested
  BY InitInv, InitLaneInv DEF Init, Requested
<1>2. (Inv /\ LaneInv /\ Requested) /\ [Next]_vars => (Inv /\ LaneInv /\ Requested)'
  BY NextInv, NextLaneInv
<1>3. LaneInv => DisposedIsQuiet
  BY DEF LaneInv
<1> QED
  BY <1>1, <1>2, <1>3, PTL DEF Spec
-----------------------------------------------------------------------------
(* The lanes serve in order.                                               *)

\* No more deliveries than the model's bound.
Bounded == Len(tasks) <= MaxDeliveries

LaneTypes == Inv /\ LaneInv /\ Requested /\ Bounded

\* Who is on a lane waits or is executed.
WaitOrRun ==
    /\ {t \in DOMAIN tasks : OnLane(t)} = Queued \cup Executed
    /\ Queued \cap Executed = {}
    /\ Queued \cup Executed \subseteq 1..MaxDeliveries

LEMMA OnLaneWaitsOrRuns == LaneTypes => WaitOrRun
<1> SUFFICES ASSUME LaneTypes
             PROVE  WaitOrRun
  OBVIOUS
<1>1. DOMAIN tasks \subseteq 1..MaxDeliveries
  BY BoundAssumption DEF LaneTypes, Bounded, Inv, Numbered
<1>2. \A t \in Queued : OnLane(t)
  BY QueuedIsOnLane DEF LaneTypes, Queued
<1> QED
  BY <1>1, <1>2 DEF WaitOrRun, Queued, Executed

\* A step that moves no effect to, on or off a lane.
LEMMA LanesKeepStill ==
    ASSUME Queued' = Queued, Executed' = Executed, WaitOrRun, WaitOrRun',
           \A t \in Queued \cup Executed : tasks'[t].request = tasks[t].request
    PROVE  UNCHANGED Lock!vars
<1>1. ASSUME NEW t \in 1..MaxDeliveries
      PROVE  /\ (t \in DOMAIN tasks /\ OnLane(t)) <=> t \in Queued \cup Executed
             /\ (t \in DOMAIN tasks' /\ OnLane(t)') <=> t \in Queued \cup Executed
  BY DEF WaitOrRun
<1>2. \A t \in Queued \cup Executed : Locked(t)' = Locked(t)
  BY DEF Locked
<1>3. Wants' = Wants
  BY <1>1, <1>2 DEF Wants
<1>4. Before' = Before
  BY DEF Before
<1> QED
  BY <1>3, <1>4 DEF Lock!vars

\* What it takes to be on a lane stays the same for the tasks other than `moved'.
StayPut(moved) ==
    \A t \in DOMAIN tasks \ moved :
        /\ OnLane(t)' <=> OnLane(t)
        /\ tasks'[t].phase = "Queued" <=> tasks[t].phase = "Queued"
        /\ tasks'[t].request = tasks[t].request

LEMMA StillStanding ==
    ASSUME WaitOrRun, WaitOrRun', SameTasks, StayPut({})
    PROVE  UNCHANGED Lock!vars
<1>1. Queued' = Queued /\ Executed' = Executed
  BY DEF SameTasks, StayPut, Queued, Executed
<1>2. \A t \in Queued \cup Executed : tasks'[t].request = tasks[t].request
  BY DEF StayPut, Queued, Executed
<1> QED
  BY <1>1, <1>2, LanesKeepStill

\* An effect whose turn it is meets none that holds a lane or waits before it.
LEMMA BegunIsFree ==
    ASSUME LaneTypes, NEW t \in DOMAIN tasks, Begin(t)
    PROVE  Lock!Free(t)
<1>1. t \in Queued /\ OnLane(t)
  BY QueuedIsOnLane DEF Begin, Queued, LaneTypes
<1>2. t \in 1..MaxDeliveries /\ Wants[t] = Locked(t)
  BY <1>1, OnLaneWaitsOrRuns DEF WaitOrRun, Wants
<1>3. SUFFICES ASSUME NEW u \in Executed \cup Before[t], Wants[t] \cap Wants[u] # {}
               PROVE  FALSE
  BY DEF Lock!Free, Lock!Overlap
<1>4. u \in DOMAIN tasks /\ OnLane(u) /\ u \in 1..MaxDeliveries
      /\ tasks[u].kind = "First" /\ (u \in Executed \/ u < t)
  <2>1. u \in Queued \cup Executed /\ (u \in Executed \/ u < t)
    BY <1>1, <1>2 DEF Before
  <2> QED
    BY <2>1, OnLaneWaitsOrRuns DEF WaitOrRun, OnLane
<1>5. Meets(t, u) /\ Meets(u, t)
  <2>1. Locked(t) \cap Locked(u) # {}
    BY <1>2, <1>3, <1>4 DEF Wants
  <2> QED
    BY <2>1 DEF Locked, Meets, Shares
<1>6. CASE u < t
  <2>1. \E w \in tasks[t].after : OnLane(w)
    BY <1>1, <1>4, <1>5, <1>6, AwaitedIsOnLane DEF LaneTypes, Queued
  <2> QED
    BY <2>1 DEF Begin
<1>7. CASE t < u
  <2>1. tasks[u].phase = "Queued"
    BY <1>1, <1>4, <1>5, <1>7 DEF LaneTypes, LaneInv, InTurn
  <2> QED
    BY <1>2, <1>4, <1>7, <2>1 DEF Executed
<1>8. CASE t = u
  BY <1>1, <1>4, <1>8 DEF Executed, Queued
<1> QED
  BY <1>2, <1>4, <1>6, <1>7, <1>8

LEMMA BeginGrants ==
    ASSUME LaneTypes, WaitOrRun', NEW t \in DOMAIN tasks, Begin(t)
    PROVE  Lock!Grant(t)
<1>1. t \in Queued /\ OnLane(t) /\ DOMAIN tasks[t] = Fields /\ DOMAIN tasks' = DOMAIN tasks
  BY QueuedIsOnLane, TaskSteps DEF Begin, Queued, LaneTypes, Inv, Numbered, SameTasks
<1>2. PICK x : /\ tasks' = [tasks EXCEPT ![t] = x] /\ x.phase \in {"Executing", "Acknowledging"}
               /\ \A f \in {"kind", "continued", "request"} : x[f] = tasks[t][f]
  <2>1. CASE tasks[t].reason = "None"
    <3> DEFINE y == [tasks[t] EXCEPT !.phase = "Executing", !.after = {}]
    <3>1. tasks' = [tasks EXCEPT ![t] = y]
      BY <2>1 DEF Begin
    <3>2. y.phase = "Executing" /\ \A f \in {"kind", "continued", "request"} : y[f] = tasks[t][f]
      BY <1>1 DEF Fields
    <3> HIDE DEF y
    <3> QED
      BY <3>1, <3>2
  <2>2. CASE tasks[t].reason # "None"
    <3> DEFINE z == [tasks[t] EXCEPT !.after = {}]
               y == [z EXCEPT !.phase = "Acknowledging", !.answer = ErrorOf(tasks[t].reason)]
    <3>1. tasks' = [tasks EXCEPT ![t] = y]
      BY <2>2 DEF Begin, Settle
    <3>2. DOMAIN z = Fields /\ \A f \in {"kind", "continued", "request"} : z[f] = tasks[t][f]
      BY <1>1 DEF Fields
    <3> HIDE DEF z
    <3>3. y.phase = "Acknowledging" /\ \A f \in {"kind", "continued", "request"} : y[f] = tasks[t][f]
      BY <3>2 DEF Fields
    <3> HIDE DEF y
    <3> QED
      BY <3>1, <3>3
  <2> QED
    BY <2>1, <2>2
<1>3. /\ tasks'[t].phase \in {"Executing", "Acknowledging"} /\ OnLane(t)'
      /\ tasks'[t].request = tasks[t].request
      /\ \A u \in DOMAIN tasks : u # t => tasks'[u] = tasks[u]
  BY <1>1, <1>2 DEF OnLane
<1>4. \A u \in DOMAIN tasks : u # t => (OnLane(u)' <=> OnLane(u))
  BY <1>3 DEF OnLane
<1>5. Queued' = Queued \ {t} /\ Executed' = Executed \cup {t}
  BY <1>1, <1>3, <1>4 DEF Queued, Executed
<1>6. \A u \in DOMAIN tasks : Locked(u)' = Locked(u)
  BY <1>3 DEF Locked
<1>7. Wants' = Wants
  BY <1>1, <1>3, <1>4, <1>6 DEF Wants
<1>8. Before' = [u \in 1..MaxDeliveries |-> IF u = t THEN {} ELSE Before[u] \ {t}]
  BY <1>5 DEF Before
<1> QED
  BY <1>1, <1>5, <1>7, <1>8, BegunIsFree DEF Lock!Grant, Lock!Withdrawn

\* A task that leaves its lanes.
LEMMA LeavingReleases ==
    ASSUME WaitOrRun, WaitOrRun', SameTasks, NEW t \in Executed, ~OnLane(t)', StayPut({t}),
           tasks'[t].phase # "Queued"
    PROVE  Lock!Release(t)
<1>1. Queued' = Queued /\ Executed' = Executed \ {t}
  BY DEF SameTasks, StayPut, Queued, Executed
<1>2. \A u \in DOMAIN tasks \ {t} : Locked(u)' = Locked(u)
  BY DEF StayPut, Locked
<1>3. Wants' = [Wants EXCEPT ![t] = {}]
  BY <1>2 DEF SameTasks, StayPut, Wants
<1>4. Before' = Before
  BY <1>1 DEF Before
<1> QED
  BY <1>1, <1>3, <1>4 DEF Lock!Release

\* A task goes on without queueing: if it leaves its lanes, that is a release.
LEMMA GoesOnOffOrOn ==
    ASSUME WaitOrRun, WaitOrRun', SameTasks, NEW t \in DOMAIN tasks, NEW x,
           tasks' = [tasks EXCEPT ![t] = x], x.request = tasks[t].request,
           tasks[t].phase # "Queued", x.phase # "Queued", OnLane(t)' => OnLane(t)
    PROVE  Lock!Release(t) \/ UNCHANGED Lock!vars
<1>1. tasks'[t] = x /\ \A u \in DOMAIN tasks : u # t => tasks'[u] = tasks[u]
  OBVIOUS
<1>2. StayPut({t})
  BY <1>1 DEF StayPut, OnLane
<1>3. CASE OnLane(t)' <=> OnLane(t)
  <2>1. StayPut({})
    BY <1>1, <1>2, <1>3 DEF StayPut
  <2> QED
    BY <2>1, StillStanding
<1>4. CASE OnLane(t) /\ ~OnLane(t)'
  <2>1. t \in Executed
    BY <1>4 DEF Executed
  <2> QED
    BY <1>1, <1>2, <1>4, <2>1, LeavingReleases
<1> QED
  BY <1>3, <1>4

LEMMA SettleServes ==
    ASSUME Inv, WaitOrRun, WaitOrRun', SameTasks, NEW t \in DOMAIN tasks, NEW answer,
           Settle(t, tasks[t], answer), tasks[t].phase \in {"Executing", "Continuing"}
    PROVE  Lock!Release(t) \/ UNCHANGED Lock!vars
<1> DEFINE x == [tasks[t] EXCEPT !.phase = "Acknowledging", !.answer = answer]
<1>1. tasks' = [tasks EXCEPT ![t] = x]
  BY DEF Settle
<1>2. /\ x.phase = "Acknowledging" /\ x.request = tasks[t].request
      /\ x.kind = tasks[t].kind /\ x.continued = tasks[t].continued
  BY DEF Inv, Numbered, Fields
<1> HIDE DEF x
<1>3. OnLane(t)' => OnLane(t)
  BY <1>1, <1>2 DEF OnLane, Inv, Sound
<1> QED
  BY <1>1, <1>2, <1>3, GoesOnOffOrOn

LEMMA TaskStepServes ==
    ASSUME LaneTypes, WaitOrRun', NEW t \in DOMAIN tasks,
           \/ Begin(t)
           \/ \E answer \in {"Ok", "Failed"} : ExecuteEnds(t, answer)
           \/ ExecuteContinues(t)
           \/ \E answer \in {"Ok", "Failed"} : ContinuationEnds(t, answer)
           \/ Replay(t)
           \/ \E ok \in BOOLEAN : Acknowledged(t, ok)
    PROVE  Lock!Grant(t) \/ Lock!Release(t) \/ UNCHANGED Lock!vars
<1>1. SameTasks /\ WaitOrRun /\ DOMAIN tasks[t] = Fields
  BY TaskSteps, OnLaneWaitsOrRuns DEF LaneTypes, Inv, Numbered
<1>2. CASE Begin(t)
  BY <1>2, BeginGrants
<1>3. ASSUME NEW answer, ExecuteEnds(t, answer)
      PROVE  Lock!Release(t) \/ UNCHANGED Lock!vars
  BY <1>1, <1>3, SettleServes DEF ExecuteEnds, LaneTypes
<1>4. ASSUME NEW answer, ContinuationEnds(t, answer)
      PROVE  Lock!Release(t) \/ UNCHANGED Lock!vars
  BY <1>1, <1>4, SettleServes DEF ContinuationEnds, LaneTypes
<1>5. CASE ExecuteContinues(t)
  <2> DEFINE x == [tasks[t] EXCEPT !.phase = "Continuing", !.continued = TRUE,
                                   !.reason = ReasonOnReturn(t)]
  <2>1. tasks' = [tasks EXCEPT ![t] = x] /\ tasks[t].phase = "Executing"
    BY <1>5 DEF ExecuteContinues
  <2>2. x.phase = "Continuing" /\ x.request = tasks[t].request
    BY <1>1 DEF Fields
  <2> HIDE DEF x
  <2>3. ~OnLane(t)'
    BY <2>1, <2>2 DEF OnLane
  <2> QED
    BY <1>1, <2>1, <2>2, <2>3, GoesOnOffOrOn
<1>6. CASE Replay(t)
  <2> DEFINE x == [tasks[t] EXCEPT !.phase = "Acknowledging",
                                   !.answer = tasks[tasks[t].of].answer]
  <2>1. tasks' = [tasks EXCEPT ![t] = x] /\ tasks[t].phase = "Awaiting" /\ Sound(tasks[t])
    BY <1>6 DEF Replay, LaneTypes, Inv
  <2>2. x.phase = "Acknowledging" /\ x.request = tasks[t].request /\ x.kind = tasks[t].kind
    BY <1>1 DEF Fields
  <2> HIDE DEF x
  <2>3. ~OnLane(t)'
    BY <2>1, <2>2 DEF OnLane, Sound
  <2> QED
    BY <1>1, <2>1, <2>2, <2>3, GoesOnOffOrOn
<1>7. ASSUME NEW ok, Acknowledged(t, ok)
      PROVE  Lock!Release(t) \/ UNCHANGED Lock!vars
  <2>1. PICK p : tasks' = [tasks EXCEPT ![t] =
                     [tasks[t] EXCEPT !.phase = "Done", !.continued = FALSE,
                                      !.reason = "None", !.projection = p]]
    BY <1>7 DEF Acknowledged
  <2> DEFINE x == [tasks[t] EXCEPT !.phase = "Done", !.continued = FALSE,
                                   !.reason = "None", !.projection = p]
  <2>2. tasks' = [tasks EXCEPT ![t] = x] /\ tasks[t].phase = "Acknowledging"
    BY <1>7, <2>1 DEF Acknowledged
  <2>3. x.phase = "Done" /\ x.request = tasks[t].request
    BY <1>1 DEF Fields
  <2> HIDE DEF x
  <2>4. ~OnLane(t)'
    BY <2>2, <2>3 DEF OnLane
  <2> QED
    BY <1>1, <2>2, <2>3, <2>4, GoesOnOffOrOn
<1> QED
  BY <1>2, <1>3, <1>4, <1>5, <1>6, <1>7

LEMMA CancelAllServes ==
    ASSUME LaneTypes, WaitOrRun', NEW which, NEW reason, CancelAll(which, reason)
    PROVE  UNCHANGED Lock!vars
<1>1. ASSUME NEW t \in DOMAIN tasks
      PROVE  /\ tasks'[t].phase = tasks[t].phase /\ tasks'[t].kind = tasks[t].kind
             /\ tasks'[t].continued = tasks[t].continued /\ tasks'[t].request = tasks[t].request
  BY DEF CancelAll, LaneTypes, Inv, Numbered, Fields
<1>2. StayPut({})
  BY <1>1 DEF StayPut, OnLane
<1> QED
  BY <1>2, CancelAllChanges, OnLaneWaitsOrRuns, StillStanding DEF LaneTypes

\* A delivery asks for its scopes behind all that wait, or comes to no lane.
LEMMA DeliverServes ==
    ASSUME LaneTypes, WaitOrRun', Bounded', NEW r \in Requests, Deliver(r)
    PROVE  [Lock!Next]_(Lock!vars)
<1>0. PICK new : new = Len(tasks) + 1
  OBVIOUS
<1>w. WaitOrRun
  BY OnLaneWaitsOrRuns
<1>1. PICK x : tasks' = Append(tasks, x) /\ x.request = r
               /\ \/ x.kind = "First" /\ x.phase = "Queued" /\ ~x.continued
                  \/ x.kind # "First" /\ x.phase \in {"Awaiting", "Acknowledging"}
  BY DEF Deliver, NewTask
<1>2. /\ new \in Nat /\ new \notin DOMAIN tasks /\ \A t \in DOMAIN tasks : t \in Nat /\ t < new
      /\ DOMAIN tasks' = DOMAIN tasks \cup {new} /\ tasks'[new] = x
      /\ \A t \in DOMAIN tasks : tasks'[t] = tasks[t]
  BY <1>0, <1>1 DEF LaneTypes, Inv, Numbered
<1>3. \A t \in DOMAIN tasks : (OnLane(t)' <=> OnLane(t)) /\ Locked(t)' = Locked(t)
  BY <1>2 DEF OnLane, Locked
<1>4. new \in 1..MaxDeliveries
  BY <1>0, <1>1, <1>2, BoundAssumption DEF Bounded, LaneTypes, Inv, Numbered
<1>5. Executed' = Executed
  BY <1>1, <1>2, <1>3 DEF Executed, OnLane
<1>6. CASE x.kind = "First"
  <2>1. OnLane(new)' /\ Queued' = Queued \cup {new}
    BY <1>1, <1>2, <1>3, <1>6 DEF OnLane, Queued
  <2>2. PICK S : S = IF "app" \in ScopesOf[r] THEN Scopes ELSE ScopesOf[r]
    OBVIOUS
  <2>3. S \in (SUBSET Scopes) \ {{}}
    BY <2>2, RequestAssumption DEF RequestAssumption, Scopes
  <2>4. Locked(new)' = S
    BY <1>1, <1>2, <2>2 DEF Locked
  <2>5. Wants' = [Wants EXCEPT ![new] = S]
    BY <1>2, <1>3, <1>4, <2>1, <2>4 DEF Wants
  <2>6. new \notin Queued \cup Executed
    BY <1>2 DEF Queued, Executed
  <2>7. \A u \in Queued : u \in Nat /\ u < new
    BY <1>2 DEF Queued
  <2>8. Before' = [Before EXCEPT ![new] = Queued]
    <3>1. ASSUME NEW t \in 1..MaxDeliveries
          PROVE  Before'[t] = IF t = new THEN Queued ELSE Before[t]
      <4>1. CASE t = new
        BY <2>1, <2>6, <2>7, <4>1 DEF Before
      <4>2. CASE t \in Queued
        <5>1. ~(new < t) /\ t # new
          BY <1>2, <2>6, <2>7, <4>2
        <5>2. {u \in Queued \cup {new} : u < t} = {u \in Queued : u < t}
          BY <5>1
        <5> QED
          BY <2>1, <4>2, <5>1, <5>2 DEF Before
      <4>3. CASE t \notin Queued \cup {new}
        BY <2>1, <4>3 DEF Before
      <4> QED
        BY <4>1, <4>2, <4>3
    <3> QED
      BY <3>1 DEF Before
  <2> QED
    BY <1>4, <1>5, <2>1, <2>3, <2>5, <2>6, <2>8 DEF Lock!Next, Lock!Request, Lock!Idle
<1>7. CASE x.kind # "First"
  <2>1. ~OnLane(new)' /\ Queued' = Queued
    BY <1>1, <1>2, <1>7 DEF OnLane, Queued
  <2>2. \A t \in Queued \cup Executed : tasks'[t].request = tasks[t].request
    BY <1>2 DEF Queued, Executed
  <2> QED
    BY <1>w, <1>5, <2>1, <2>2, LanesKeepStill
<1> QED
  BY <1>6, <1>7

\* Cancellations, the end of the coordinator and the reader move no effect.
LEMMA OthersKeepStill ==
    ASSUME LaneTypes, WaitOrRun',
           \/ Start
           \/ \E e \in Effects : Cancel(e)
           \/ CoreShutdown
           \/ Dispose
           \/ StreamFails
           \/ DrainStep
           \/ Recreate
           \/ \E w : AskWindow(w)
           \/ ReaderPasses
           \/ ReaderFails
           \/ UNCHANGED vars
    PROVE  UNCHANGED Lock!vars
<1>1. CASE tasks' = tasks
  <2>1. SameTasks /\ StayPut({})
    BY <1>1 DEF SameTasks, StayPut, OnLane, LaneTypes, Inv
  <2> QED
    BY <2>1, OnLaneWaitsOrRuns, StillStanding
<1>2. ASSUME NEW e, Cancel(e)
      PROVE  UNCHANGED Lock!vars
  BY <1>2, CancelAllServes DEF Cancel
<1>3. CASE CoreShutdown
  BY <1>3, CancelAllServes DEF CoreShutdown
<1>4. ASSUME NEW reason, NEW every, BeginDrain(reason, every)
      PROVE  UNCHANGED Lock!vars
  BY <1>4, CancelAllServes DEF BeginDrain
<1>5. CASE Dispose
  BY <1>4, <1>5 DEF Dispose
<1>6. CASE StreamFails
  BY <1>1, <1>4, <1>6 DEF StreamFails
<1>7. CASE \/ Start \/ DrainStep \/ Recreate \/ (\E w : AskWindow(w)) \/ ReaderPasses
           \/ ReaderFails \/ UNCHANGED vars
  BY <1>1, <1>7 DEF Start, DrainStep, Recreate, AskWindow, ReaderPasses, ReaderFails, vars
<1> QED
  BY <1>2, <1>3, <1>5, <1>6, <1>7

\* The model's own bound.
LEMMA NextBounded ==
    ASSUME LaneTypes, [Next]_vars
    PROVE  Bounded'
<1>1. ASSUME NEW r \in Requests, Deliver(r)
      PROVE  Bounded'
  <2>1. PICK x : tasks' = Append(tasks, x)
    BY <1>1 DEF Deliver
  <2>2. PICK b \in Bounds : Len(tasks) + 1 <= b.deliveries
    BY <1>1 DEF Deliver, Within
  <2> QED
    BY <2>1, <2>2, BoundAssumption DEF BoundAssumption, Bounded, LaneTypes, Inv, Numbered
<1>2. CASE SameTasks
  BY <1>2 DEF SameTasks, Bounded, LaneTypes
<1>3. CASE UNCHANGED vars
  BY <1>3 DEF vars, Bounded, LaneTypes
<1>4. ASSUME NEW w, AskWindow(w)
      PROVE  Bounded'
  BY <1>4 DEF AskWindow, Bounded, LaneTypes
<1> QED
  BY <1>1, <1>2, <1>3, <1>4, TaskSteps, OtherSteps DEF Next, LaneTypes

LEMMA NextServes == LaneTypes /\ LaneTypes' /\ [Next]_vars => [Lock!Next]_(Lock!vars)
<1> SUFFICES ASSUME LaneTypes, LaneTypes', [Next]_vars
             PROVE  [Lock!Next]_(Lock!vars)
  OBVIOUS
<1>1. WaitOrRun' /\ Bounded'
  BY OnLaneWaitsOrRuns, PTL DEF LaneTypes
<1>2. ASSUME NEW t \in DOMAIN tasks, Lock!Grant(t) \/ Lock!Release(t)
      PROVE  Lock!Next
  <2>1. t \in 1..MaxDeliveries
    BY BoundAssumption DEF BoundAssumption, LaneTypes, Bounded, Inv, Numbered
  <2> QED
    BY <1>2, <2>1 DEF Lock!Next
<1> QED
  BY <1>1, <1>2, DeliverServes, TaskStepServes, OthersKeepStill DEF Next

LEMMA InitServes == Init => LaneTypes /\ Lock!Init
<1> SUFFICES ASSUME Init
             PROVE  LaneTypes /\ Lock!Init
  OBVIOUS
<1>1. tasks = <<>> /\ Len(tasks) = 0 /\ DOMAIN tasks = {}
  BY DEF Init
<1>2. LaneTypes
  BY <1>1, InitInv, InitLaneInv, BoundAssumption
  DEF BoundAssumption, LaneTypes, Requested, Bounded
<1>3. Queued = {} /\ Executed = {}
  BY <1>1 DEF Queued, Executed
<1> QED
  BY <1>1, <1>2, <1>3 DEF Lock!Init, Before, Wants

\* The lanes are a lock: effects that share a scope, or one of which is on "app",
\* are executed one at a time and in the order in which the Core sent them, for any
\* effects and scopes, although an effect awaits only the last one of each lane.
THEOREM LanesServeInOrder == Spec => ServedInOrder
<1>1. LaneTypes /\ [Next]_vars => LaneTypes'
  BY NextInv, NextLaneInv, NextBounded DEF LaneTypes
<1> QED
  BY <1>1, InitServes, NextServes, PTL DEF Spec, ServedInOrder, Lock!InOrder

=============================================================================
