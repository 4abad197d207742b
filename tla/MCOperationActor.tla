-------------------------- MODULE MCOperationActor --------------------------
(* Small instances of OperationActor for TLC.                              *)
EXTENDS OperationActor, TLC

CONSTANTS o1, o2

Symmetric == Permutations(Operations)

\* Steps: deadline- or event-bound; with or without a compensation.
D(undoPolicy, onRejectResult) ==
    [policy |-> "DeadlineBound", undo |-> undoPolicy, onReject |-> onRejectResult]
E(undoPolicy, onRejectResult) ==
    [policy |-> "EventBound", undo |-> undoPolicy, onReject |-> onRejectResult]

\* No step at all; three steps, so that two compensations are kept when the
\* third fails; and steps that all have deadlines.
UnwindPlans == {<<>>,
    <<D("DeadlineBound", FALSE), E("EventBound", TRUE), D("None", FALSE)>>,
    <<D("DeadlineBound", FALSE), D("None", FALSE)>>}
\* Two operations that compete for one slot.
PairPlans == {<<D("None", FALSE)>>, <<E("None", FALSE)>>}
\* A step that rejects cleanly, so that its rejected results are not compensated.
RejectPlans == {<<D("DeadlineBound", FALSE)>>}
=============================================================================
