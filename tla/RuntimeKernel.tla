---------------------------- MODULE RuntimeKernel ----------------------------
(***************************************************************************)
(* The runtime kernel of rion-core (runtime_kernel/state.rs): the single   *)
(* authority over live windows, their tabs, the native surfaces of the     *)
(* tabs and the operations that open and close them.                       *)
(*                                                                         *)
(* The kernel is an actor: it applies one intent at a time to a copy of    *)
(* its state, validates the copy, and commits it or drops it.  An action   *)
(* is one committed intent.  What makes the kernel hard is not that it is  *)
(* concurrent but that its callers are: an intent is computed from an old  *)
(* snapshot and a native event reports on an old surface, so any intent    *)
(* may arrive at any time.  Here any intent is offered in every state, and *)
(* one that the kernel answers Superseded, Duplicate or with an error      *)
(* changes nothing and is no step.                                         *)
(***************************************************************************)
EXTENDS Naturals, Sequences, FiniteSets

CONSTANTS
    WindowIds,      \* window ids, ordered as the strings are: natural numbers
    Tabs,           \* tab ids
    OpIds,          \* ids of operations and of activation attempts
    Attempts,       \* launch attempt ids
    NoTab, NoOp,    \* Option::None
    DormantAttempt, \* the attempt id "dormant:<tab>"
    MaxGeneration,  \* bound: window generations
    MaxSequence,    \* bound: ui_sequence and placement_sequence
    Layouts         \* the windows a topology commit may carry: see Layout

ASSUME OptionAssumption ==
    /\ NoTab \notin Tabs
    /\ NoOp \notin OpIds
    /\ DormantAttempt \notin OpIds
ASSUME NumberAssumption ==
    /\ WindowIds \subseteq Nat
    /\ MaxGeneration \in Nat
    /\ MaxSequence \in Nat

Generations == 0..MaxGeneration
Numbers == 0..MaxSequence

\* RuntimeLiveWindowRecord.  The order of the tabs, names, placements and the
\* aggregate revision are left out: see CommitTopology for the first tab.
Window == [tabs : SUBSET Tabs, hidden : SUBSET Tabs, selected : Tabs \cup {NoTab},
           generation : Generations, ui : Numbers, placement : Numbers]
DefaultWindow == [tabs |-> {}, hidden |-> {}, selected |-> NoTab,
                  generation |-> 0, ui |-> 0, placement |-> 0]

\* RuntimeWindowTopologyCommit
Layout == [tabs : SUBSET Tabs, hidden : SUBSET Tabs, active : Tabs \cup {NoTab},
           generation : Generations, ui : Numbers]
ASSUME LayoutAssumption == Layouts \subseteq Layout

Terminal == {"Completed", "Failed", "Cancelled", "Indeterminate"}
\* terminal_code, by what produced it: an exact native event (or a dormant
\* close, born completed), a supersede, an event-stream failure, a caller.
Cause == {"None", "Native", "SupersededByClose", "SupersededByRelaunch",
          "OwnerChanged", "StreamFailed", "Caller"}
Outcome == [phase : Terminal, cause : Cause]
\* RuntimeOperationRecord.  Its window_id is read for a close only, where it is
\* the window of the tombstone.
Operation == [kind : {"launch", "closeTab"}, tab : Tabs, attempt : Attempts,
              generation : Generations,
              phase : Terminal \cup {"Pending"}, cause : Cause]

Lifecycle == {"Desired", "Attached", "Ready", "Closing", "Failed"}
\* The attempt and the generations of a surface and of a tombstone are those of
\* the operation they name, and the kernel never reads them.
Surface == [lifecycle : Lifecycle, op : OpIds]
Tombstone == [op : OpIds, window : WindowIds]

InProgress == {"Activating", "Attaching", "Loading"}
ActivationPhase == InProgress \cup {"Dormant", "Ready", "Degraded", "Failed"}
Activation == [attempt : OpIds \cup {DormantAttempt}, native : OpIds \cup {NoOp},
               owner : WindowIds, phase : ActivationPhase, generation : Generations]

VARIABLES
    windows,        \* windows: live window records
    operations,     \* operations: never pruned
    applied,        \* applied_operation_ids
    surfaces,       \* logical_surfaces
    tombstones,     \* tombstones: the fence of a closed tab
    activations,    \* tab_activations
    drag,           \* drag.active: the tab a live gesture moves
    told            \* terminal_events of the commits, per operation

vars == <<windows, operations, applied, surfaces, tombstones, activations, drag, told>>

-----------------------------------------------------------------------------
\* Rust's maps: functions whose domain is the set of keys.
IsMap(m, K, V) == DOMAIN m \subseteq K /\ m \in [DOMAIN m -> V]
Empty == [x \in {} |-> x]
Put(m, k, v) == [x \in DOMAIN m \cup {k} |-> IF x = k THEN v ELSE m[x]]
Without(m, S) == [x \in DOMAIN m \ S |-> m[x]]

Live(w) == w \in DOMAIN windows
LiveTabs(ws) == UNION {ws[w].tabs : w \in DOMAIN ws}
Fenced(t) == t \in DOMAIN tombstones
Ended(op) == op.phase \in Terminal
Fresh(id) == id \notin applied
Remember(id) == applied' = applied \cup {id}

\* A tab is in at most one window (validate_candidate_ownership).
Unique(ws) == \A v, w \in DOMAIN ws : v # w => ws[v].tabs \cap ws[w].tabs = {}

\* select, remove_tab of RuntimeLiveWindowRecord
Select(window, t) == [window EXCEPT !.selected = t, !.hidden = @ \ {t}]
\* Mutant: the closed tab stays selected.
RemoveTabKeepSelection(window, t) ==
    [window EXCEPT !.tabs = @ \ {t}, !.hidden = @ \ {t}]

RemoveTab(window, t) ==
    [window EXCEPT !.tabs = @ \ {t}, !.hidden = @ \ {t},
                   !.selected = IF @ = t THEN NoTab ELSE @]

\* Cancel every pending operation of a set; report the outcome of each.
CancelAll(S, cause) ==
    [o \in DOMAIN operations |->
        IF o \in S THEN [operations[o] EXCEPT !.phase = "Cancelled", !.cause = cause]
                   ELSE operations[o]]
Tell(S, phase, cause) ==
    told' = [o \in OpIds |-> IF o \in S THEN Append(told[o], [phase |-> phase, cause |-> cause])
                                        ELSE told[o]]
\* Mutant: operations that have ended are cancelled again.
AllOf(t) == {o \in DOMAIN operations : operations[o].tab = t}

PendingOf(t) == {o \in DOMAIN operations : operations[o].tab = t /\ ~Ended(operations[o])}

Init ==
    /\ windows = Empty
    /\ operations = Empty
    /\ applied = {}
    /\ surfaces = Empty
    /\ tombstones = Empty
    /\ activations = Empty
    /\ drag = NoTab
    /\ told = [o \in OpIds |-> <<>>]

-----------------------------------------------------------------------------
(* Windows *)

\* Mutant: the activation keeps its native operation.
RefencePhase(w, g) ==
    [t \in DOMAIN activations |->
        LET a == activations[t] IN
        IF ~Live(w) \/ t \notin windows[w].tabs \/ a.generation = g THEN a
        ELSE [a EXCEPT !.phase = IF @ \in InProgress THEN "Failed" ELSE @, !.generation = g]]

\* The activations of a window that moves to generation g: a launch in
\* progress fails, and the activation forgets its native operation.
Refence(w, g) ==
    [t \in DOMAIN activations |->
        LET a == activations[t] IN
        IF ~Live(w) \/ t \notin windows[w].tabs \/ a.generation = g THEN a
        ELSE [a EXCEPT !.phase = IF @ \in InProgress THEN "Failed" ELSE @,
                       !.native = NoOp, !.owner = w, !.generation = g]]

EnsureWindow(w) ==
    /\ ~Live(w)
    /\ windows' = Put(windows, w, DefaultWindow)
    /\ UNCHANGED <<operations, applied, surfaces, tombstones, activations, drag, told>>

SetWindowGeneration(w, g) ==
    /\ Live(w) => g > windows[w].generation
    /\ windows' = Put(windows, w, [(IF Live(w) THEN windows[w] ELSE DefaultWindow)
                                     EXCEPT !.generation = g, !.placement = 0])
    /\ activations' = Refence(w, g)
    /\ UNCHANGED <<operations, applied, surfaces, tombstones, drag, told>>

\* apply_window_context: at an equal generation a changed name alone is enough
\* to run the loop over the activations.
InitializeWindowContext(w, g) ==
    /\ Live(w) => g >= windows[w].generation
    /\ windows' = Put(windows, w,
         IF ~Live(w) THEN [DefaultWindow EXCEPT !.generation = g]
         ELSE IF g > windows[w].generation
              THEN [windows[w] EXCEPT !.generation = g, !.placement = 0]
              ELSE windows[w])
    /\ activations' = Refence(w, g)
    /\ UNCHANGED <<operations, applied, surfaces, tombstones, drag, told>>

\* apply_placement advances the generation and leaves the activations alone.
CommitPlacement(w, g, n) ==
    LET current == IF Live(w) THEN windows[w] ELSE DefaultWindow IN
    /\ g > current.generation \/ (g = current.generation /\ n > current.placement)
    /\ windows' = Put(windows, w, [current EXCEPT !.generation = g, !.placement = n])
    /\ UNCHANGED <<operations, applied, surfaces, tombstones, activations, drag, told>>

\* Mutant: only a completed close counts, not a failed one.
SurfaceIsClosed(t) ==
    /\ t \notin DOMAIN surfaces
    /\ operations[tombstones[t].op].phase = "Completed"

\* Has the surface of a closed tab reached an exact terminal?
SurfaceIsTerminal(t) ==
    /\ t \notin DOMAIN surfaces
    /\ operations[tombstones[t].op].phase \in {"Completed", "Failed"}

RemoveWindow(w) ==
    LET remaining == Without(windows, {w})
        retired == {t \in DOMAIN tombstones :
                       tombstones[t].window = w /\ SurfaceIsTerminal(t)}
    IN  /\ Live(w)
        /\ windows' = remaining
        /\ activations' = Without(activations, DOMAIN activations \ LiveTabs(remaining))
        /\ tombstones' = Without(tombstones, retired)
        /\ UNCHANGED <<operations, applied, surfaces, drag, told>>

-----------------------------------------------------------------------------
(* Topology *)

\* Of several committed windows that hold a tab, the primary one owns it, or
\* else the first in the order of the ids.
OwnerIn(c, primary, t) ==
    LET holders == {w \in DOMAIN c : t \in c[w].tabs}
    IN  IF primary \in holders THEN primary
        ELSE CHOOSE w \in holders : \A v \in holders : w <= v

\* Mutant: only the ui_sequence of the commit is compared.
StaleSequence(c) ==
    \E w \in DOMAIN c : Live(w) /\ c[w].ui > 0 /\ c[w].ui <= windows[w].ui

\* The ui_sequence or the generation of a committed window is not newer.
Stale(c) ==
    \E w \in DOMAIN c :
        /\ Live(w)
        /\ \/ c[w].generation < windows[w].generation
           \/ /\ c[w].generation = windows[w].generation
              /\ c[w].ui > 0
              /\ c[w].ui <= windows[w].ui

\* A committed window with the tabs it keeps; `pick' is its selection.
Committed(c, primary, w, pick) ==
    LET kept == {t \in c[w].tabs : OwnerIn(c, primary, t) = w}
    IN  [tabs |-> kept, hidden |-> c[w].hidden \cap kept, selected |-> pick,
         generation |-> c[w].generation, ui |-> c[w].ui,
         placement |-> IF Live(w) THEN windows[w].placement ELSE 0]

\* active_tab_id when it is visible, else the first visible tab: any of them,
\* since the order of the tabs is left out.
Selections(window, active) ==
    LET visible == window.tabs \ window.hidden
    IN  IF active \in visible THEN {active}
        ELSE IF visible = {} THEN {NoTab} ELSE visible

HolderIn(ws, t) == CHOOSE w \in DOMAIN ws : t \in ws[w].tabs

\* Mutant: a move at the same generation goes unnoticed.
MovedGeneration(ws, t) ==
    /\ t \in LiveTabs(ws)
    /\ activations[t].generation # ws[HolderIn(ws, t)].generation

\* An activation whose tab moved to another window or generation, and whether
\* its launch fails: a live gesture that moves the tab spares one that is not
\* bound to a native operation.
Moved(ws, t) ==
    /\ t \in LiveTabs(ws)
    /\ LET w == HolderIn(ws, t)
       IN  activations[t].owner # w \/ activations[t].generation # ws[w].generation
LaunchFails(ws, t) ==
    /\ Moved(ws, t)
    /\ activations[t].phase \in InProgress
    /\ ~(drag = t /\ activations[t].native = NoOp)

Rehomed(ws, t) ==
    LET a == activations[t]
        w == HolderIn(ws, t)
    IN  IF ~Moved(ws, t) THEN a
        ELSE [a EXCEPT !.phase = IF LaunchFails(ws, t) THEN "Failed" ELSE @,
                       !.native = NoOp, !.owner = w, !.generation = ws[w].generation]

CommitTopology(c, primary, picks) ==
    LET ws == [w \in DOMAIN windows \cup DOMAIN c |->
                  IF w \in DOMAIN c THEN Committed(c, primary, w, picks[w]) ELSE windows[w]]
        failed == {t \in DOMAIN activations : LaunchFails(ws, t)}
        cancelled == {o \in DOMAIN operations :
                         /\ ~Ended(operations[o])
                         /\ \E t \in failed : activations[t].native = o}
    IN  /\ ~Stale(c)
        /\ \A w \in DOMAIN c : picks[w] \in Selections(ws[w], c[w].active)
        /\ Unique(ws)
        /\ windows' = ws
        /\ activations' = [t \in DOMAIN activations \cap LiveTabs(ws) |-> Rehomed(ws, t)]
        /\ operations' = CancelAll(cancelled, "OwnerChanged")
        /\ Tell(cancelled, "Cancelled", "OwnerChanged")
        /\ surfaces' = Without(surfaces, failed)
        /\ UNCHANGED <<applied, tombstones, drag>>
        \* validate_state: a closed tab may not come back in a topology.
        /\ LiveTabs(ws) \cap DOMAIN tombstones = {}

-----------------------------------------------------------------------------
(* Activations *)

NewActivation(id, w, phase) ==
    [attempt |-> id, native |-> NoOp, owner |-> w, phase |-> phase,
     generation |-> windows[w].generation]

SeedDormantTabs(w, S) ==
    /\ Live(w)
    /\ S \subseteq windows[w].tabs
    /\ surfaces' = Without(surfaces, S)
    /\ activations' = [t \in DOMAIN activations \cup S |->
                          IF t \in S THEN NewActivation(DormantAttempt, w, "Dormant")
                                     ELSE activations[t]]
    /\ UNCHANGED <<windows, operations, applied, tombstones, drag, told>>

Visible(w, t) == Live(w) /\ t \in windows[w].tabs \ windows[w].hidden

BeginTabActivation(id, t, w) ==
    /\ Fresh(id)
    /\ Visible(w, t)
    /\ t \notin DOMAIN activations
    /\ activations' = Put(activations, t, NewActivation(id, w, "Activating"))
    /\ Remember(id)
    /\ UNCHANGED <<windows, operations, surfaces, tombstones, drag, told>>

\* Only a dormant or failed tab is launched; any other activation is joined.
ShouldLaunch(t) == t \in DOMAIN activations /\ activations[t].phase \in {"Dormant", "Failed"}

ActivateTab(id, t, w) ==
    /\ Fresh(id)
    /\ Visible(w, t)
    /\ windows' = IF windows[w].selected = t THEN windows
                  ELSE [windows EXCEPT ![w] = Select(windows[w], t)]
    /\ activations' = IF ShouldLaunch(t)
                      THEN Put(activations, t, NewActivation(id, w, "Activating"))
                      ELSE activations
    /\ Remember(id)
    /\ UNCHANGED <<operations, surfaces, tombstones, drag, told>>

\* tab_activation_transition_allowed
PhasesAfter(phase) ==
    CASE phase \in {"Dormant", "Failed"} -> {}
      [] phase = "Activating" -> {"Attaching", "Loading", "Ready", "Degraded", "Failed"}
      [] phase = "Attaching"  -> {"Loading", "Ready", "Degraded", "Failed"}
      [] phase = "Loading"    -> {"Ready", "Degraded", "Failed"}
      [] phase = "Ready"      -> {"Degraded"}
      [] phase = "Degraded"   -> {"Ready"}

SetTabActivationPhase(id, t, phase) ==
    /\ t \in DOMAIN activations
    /\ activations[t].attempt = id
    /\ phase \in PhasesAfter(activations[t].phase)
    /\ activations' = [activations EXCEPT ![t].phase = phase]
    /\ UNCHANGED <<windows, operations, applied, surfaces, tombstones, drag, told>>

-----------------------------------------------------------------------------
(* Operations on native surfaces *)

\* The close that fenced t has ended, and the tab returns under a new attempt.
\* begin_operation also takes a close with no attempt; CloseTab always has one.
Relaunchable(t, attempt) ==
    /\ Ended(operations[tombstones[t].op])
    /\ operations[tombstones[t].op].attempt # attempt

\* retire_terminal_close_tombstone_for_create: creating a closed tab again.
RecreateTab(t, attempt, w) ==
    /\ Fenced(t)
    /\ tombstones[t].window = w
    /\ Relaunchable(t, attempt)
    /\ tombstones' = Without(tombstones, {t})
    /\ UNCHANGED <<windows, operations, applied, surfaces, activations, drag, told>>

\* The activation of t waits in window w at generation g.
Awaits(t, w, g) ==
    /\ t \in DOMAIN activations
    /\ activations[t].owner = w
    /\ activations[t].generation = g
    /\ Live(w) /\ t \in windows[w].tabs /\ windows[w].generation = g

BeginOperation(o, t, attempt, w, g) ==
    LET superseded == IF Fenced(t) THEN PendingOf(t) ELSE {}
        launch == [kind |-> "launch", tab |-> t, attempt |-> attempt,
                   generation |-> g, phase |-> "Pending", cause |-> "None"]
    IN  /\ Fresh(o)
        /\ t \notin DOMAIN surfaces
        /\ Fenced(t) => Relaunchable(t, attempt)
        /\ tombstones' = Without(tombstones, {t})
        /\ surfaces' = Put(surfaces, t, [lifecycle |-> "Desired", op |-> o])
        /\ activations' = IF Awaits(t, w, g)
                          THEN [activations EXCEPT ![t].native = o, ![t].phase = "Attaching"]
                          ELSE activations
        /\ operations' = Put(CancelAll(superseded, "SupersededByRelaunch"), o, launch)
        /\ Tell(superseded, "Cancelled", "SupersededByRelaunch")
        /\ Remember(o)
        /\ UNCHANGED <<windows, drag>>

\* A dormant tab has nothing native to tear down: its close is born completed.
DormantWithoutSurface(t) ==
    /\ t \in DOMAIN activations
    /\ activations[t].phase = "Dormant"
    /\ t \notin DOMAIN surfaces

CloseTab(o, t, attempt, w, g, successor) ==
    LET dormant == DormantWithoutSurface(t)
        rest == RemoveTab(windows[w], t)
        close == [kind |-> "closeTab", tab |-> t, attempt |-> attempt,
                  generation |-> g, phase |-> IF dormant THEN "Completed" ELSE "Pending",
                  cause |-> IF dormant THEN "Native" ELSE "None"]
    IN  /\ Fresh(o)
        /\ ~Fenced(t)
        /\ Live(w) /\ t \in windows[w].tabs
        /\ windows[w].generation = g
        /\ successor # NoTab => Visible(w, successor) /\ successor # t
        /\ windows' = [windows EXCEPT ![w] = IF successor = NoTab THEN rest
                                                                  ELSE Select(rest, successor)]
        /\ activations' = Without(activations, {t})
        /\ operations' = Put(CancelAll(PendingOf(t), "SupersededByClose"), o, close)
        /\ Tell(PendingOf(t), "Cancelled", "SupersededByClose")
        /\ tombstones' = IF dormant THEN tombstones
                         ELSE Put(tombstones, t, [op |-> o, window |-> w])
        /\ surfaces' = IF t \notin DOMAIN surfaces THEN surfaces
                       ELSE [surfaces EXCEPT ![t].lifecycle = "Closing", ![t].op = o]
        /\ Remember(o)
        /\ UNCHANGED drag

\* The activation that the event of operation o reports on; an activation that
\* belongs to another operation, window or generation drops the event.
Concerns(o) ==
    LET t == operations[o].tab IN
    /\ t \in DOMAIN activations
    /\ activations[t].native = o
    /\ Awaits(t, activations[t].owner, operations[o].generation)

AfterEvent(phase, kind) ==
    LET next == CASE kind = "attached" -> "Attaching" [] kind = "ready" -> "Ready"
                  [] kind = "failed" -> "Failed" [] OTHER -> phase
    IN  IF next \in PhasesAfter(phase) THEN next ELSE phase

Reached(kind) == CASE kind = "attached" -> "Attached" [] kind = "ready" -> "Ready"
                   [] kind = "failed" -> "Failed" [] OTHER -> "Closed"

\* The tab, attempt and generation of the event are those of its operation:
\* an event with others is superseded.
NativeEvent(o, kind) ==
    LET t == operations[o].tab
        repeated == t \in DOMAIN surfaces /\ surfaces[t].lifecycle = Reached(kind)
        gone == kind \in {"closed", "failed"}
        ends == kind # "attached" /\ ~repeated
        phase == IF kind = "failed" THEN "Failed" ELSE "Completed"
        retired == {u \in {t} : gone /\ Fenced(u) /\ ~Live(tombstones[u].window)}
    IN  /\ o \in DOMAIN operations
        /\ ~Ended(operations[o])
        /\ Fenced(t) => gone
        /\ t \in DOMAIN activations => Concerns(o)
        /\ activations' = IF t \in DOMAIN activations
                          THEN [activations EXCEPT ![t].phase = AfterEvent(@, kind)]
                          ELSE activations
        /\ surfaces' = IF t \notin DOMAIN surfaces \/ repeated THEN surfaces
                       ELSE IF gone THEN Without(surfaces, {t})
                       ELSE [surfaces EXCEPT ![t].lifecycle = Reached(kind)]
        /\ operations' = IF ends
                         THEN [operations EXCEPT ![o].phase = phase, ![o].cause = "Native"]
                         ELSE operations
        /\ Tell(IF ends THEN {o} ELSE {}, phase, "Native")
        /\ tombstones' = IF ends THEN Without(tombstones, retired) ELSE tombstones
        /\ UNCHANGED <<windows, applied, drag>>

\* Mutant: a surface that is being torn down is failed like any other.
OrphansAll(lost) ==
    {t \in DOMAIN surfaces : surfaces[t].op \in lost /\ operations[surfaces[t].op].tab = t}

\* The surfaces, not yet closing, of operations whose events are lost.
Orphans(lost) ==
    {t \in DOMAIN surfaces :
        /\ surfaces[t].op \in lost
        /\ operations[surfaces[t].op].tab = t
        /\ surfaces[t].lifecycle \in {"Desired", "Attached", "Ready"}}

FailEventStream(S) ==
    LET lost == {o \in S \cap DOMAIN operations : ~Ended(operations[o])}
    IN  /\ lost # {}
        /\ operations' = [o \in DOMAIN operations |->
                             IF o \in lost THEN [operations[o] EXCEPT !.phase = "Indeterminate",
                                                                      !.cause = "StreamFailed"]
                                           ELSE operations[o]]
        /\ Tell(lost, "Indeterminate", "StreamFailed")
        /\ surfaces' = [t \in DOMAIN surfaces |->
                           IF t \in Orphans(lost) THEN [surfaces[t] EXCEPT !.lifecycle = "Failed"]
                                            ELSE surfaces[t]]
        /\ UNCHANGED <<windows, applied, tombstones, activations, drag>>

TerminalizeOperation(o, phase) ==
    /\ o \in DOMAIN operations
    /\ ~Ended(operations[o])
    /\ operations' = [operations EXCEPT ![o].phase = phase, ![o].cause = "Caller"]
    /\ Tell({o}, phase, "Caller")
    /\ UNCHANGED <<windows, applied, surfaces, tombstones, activations, drag>>

-----------------------------------------------------------------------------
(* The live gesture *)

\* A start supersedes the gesture in progress; samples do not change what is
\* modelled here; an end, or any event after the source window went, stops it.
StartDrag(t) ==
    /\ t \in LiveTabs(windows)
    /\ drag' = t
    /\ UNCHANGED <<windows, operations, applied, surfaces, tombstones, activations, told>>

EndDrag ==
    /\ drag # NoTab
    /\ drag' = NoTab
    /\ UNCHANGED <<windows, operations, applied, surfaces, tombstones, activations, told>>

-----------------------------------------------------------------------------
Commits == UNION {[S -> Layouts] : S \in (SUBSET WindowIds) \ {{}}}

WindowStep ==
    \E w \in WindowIds :
        \/ EnsureWindow(w)
        \/ RemoveWindow(w)
        \/ \E g \in Generations :
              \/ SetWindowGeneration(w, g)
              \/ InitializeWindowContext(w, g)
              \/ \E n \in Numbers : CommitPlacement(w, g, n)
        \/ \E S \in SUBSET Tabs : SeedDormantTabs(w, S)

TopologyStep ==
    \E c \in Commits : \E primary \in WindowIds :
        \E picks \in [DOMAIN c -> Tabs \cup {NoTab}] : CommitTopology(c, primary, picks)

TabStep ==
    \E t \in Tabs :
        \/ \E id \in OpIds, w \in WindowIds : BeginTabActivation(id, t, w) \/ ActivateTab(id, t, w)
        \/ \E id \in OpIds \cup {DormantAttempt}, phase \in ActivationPhase :
              SetTabActivationPhase(id, t, phase)
        \/ StartDrag(t)

OperationStep ==
    \E t \in Tabs, a \in Attempts, w \in WindowIds :
        \/ RecreateTab(t, a, w)
        \/ \E o \in OpIds, g \in Generations :
              \/ BeginOperation(o, t, a, w, g)
              \/ \E s \in Tabs \cup {NoTab} : CloseTab(o, t, a, w, g, s)

EventStep ==
    \/ \E o \in OpIds, kind \in {"attached", "ready", "failed", "closed"} : NativeEvent(o, kind)
    \/ \E S \in SUBSET OpIds : FailEventStream(S)
    \/ \E o \in OpIds, phase \in Terminal : TerminalizeOperation(o, phase)

Next == WindowStep \/ TopologyStep \/ TabStep \/ OperationStep \/ EventStep \/ EndDrag

Spec == Init /\ [][Next]_vars

-----------------------------------------------------------------------------
(* Type invariant and safety *)

\* Every record has its type, every operation id in use is remembered.
TypeOK ==
    /\ IsMap(windows, WindowIds, Window)
    /\ IsMap(operations, OpIds, Operation)
    /\ applied \subseteq OpIds
    /\ IsMap(surfaces, Tabs, Surface)
    /\ IsMap(tombstones, Tabs, Tombstone)
    /\ IsMap(activations, Tabs, Activation)
    /\ drag \in Tabs \cup {NoTab}
    /\ told \in [OpIds -> Seq(Outcome)]

\* validate_state runs on the candidate of every intent.  Of those modelled, a topology
\* commit and nothing else can fail it: any other one, in every order,
\* leaves a state that the audit accepts, so no close, launch, native event or
\* window removal is ever rolled back by an internal error.
AuditPasses ==
    /\ Unique(windows)
    /\ DOMAIN activations \subseteq LiveTabs(windows)
    /\ LiveTabs(windows) \cap DOMAIN tombstones = {}
    /\ \A t \in DOMAIN tombstones :
          /\ tombstones[t].op \in DOMAIN operations
          /\ t \in DOMAIN surfaces => surfaces[t].lifecycle = "Closing"
    /\ \A w \in DOMAIN windows :
          /\ windows[w].hidden \subseteq windows[w].tabs
          /\ windows[w].selected \in (windows[w].tabs \ windows[w].hidden) \cup {NoTab}

\* While the close of a tab is pending the tab stays fenced by that very
\* close, whatever happens to its window meanwhile, and its surface is torn
\* down for no other operation: the fence cannot be retired early.
PendingCloseIsFenced ==
    \A o \in DOMAIN operations :
        operations[o].kind = "closeTab" /\ ~Ended(operations[o]) =>
            LET t == operations[o].tab IN
            /\ Fenced(t)
            /\ tombstones[t].op = o
            /\ t \in DOMAIN surfaces => surfaces[t].op = o

\* A fence whose window is gone is dropped as soon as the native teardown of
\* the tab is known, in either order of the two events: a tab that was closed
\* with its window does not stay unusable.
RetiredWindowRetiresFence ==
    \A t \in DOMAIN tombstones :
        ~Live(tombstones[t].window) => operations[tombstones[t].op].cause # "Native"

\* The fence of a closed tab lasts as long as its close, and no longer when the
\* window is gone.
FenceFollowsClose == PendingCloseIsFenced /\ RetiredWindowRetiresFence

\* Every operation that ended was reported, once, with the outcome it keeps;
\* one that is pending was not.  (A dormant close is born completed: its
\* commit itself is the answer.)
OutcomeReportedOnce ==
    \A o \in DOMAIN operations :
        LET op == operations[o]
            outcome == <<[phase |-> op.phase, cause |-> op.cause]>>
        IN  IF ~Ended(op) THEN told[o] = <<>>
            ELSE told[o] = outcome \/ (told[o] = <<>> /\ op.kind = "closeTab"
                                                     /\ op.phase = "Completed"
                                                     /\ op.cause = "Native")

\* An activation belongs to the window that holds its tab, and its generation
\* is not ahead of the window's: a launch cannot complete for an old owner.
FollowsItsTab(t) ==
    /\ Live(activations[t].owner)
    /\ t \in windows[activations[t].owner].tabs
    /\ activations[t].generation <= windows[activations[t].owner].generation

\* One that waits for a native operation waits for a launch of its own tab,
\* admitted at its own generation, and as long as that launch is pending its
\* surface exists and is the launch's own.
WaitsForItsLaunch(t) ==
    activations[t].native # NoOp =>
        LET o == activations[t].native IN
        /\ o \in DOMAIN operations
        /\ operations[o].kind = "launch"
        /\ operations[o].tab = t
        /\ operations[o].generation = activations[t].generation
        /\ ~Ended(operations[o]) => t \in DOMAIN surfaces /\ surfaces[t].op = o

\* A tab that moves, alone or while its launch goes on, takes its activation and
\* its launch along: neither is ever left at an owner or a generation it had before.
ActivationFollowsTab ==
    \A t \in DOMAIN activations : FollowsItsTab(t) /\ WaitsForItsLaunch(t)

(* Action properties *)

\* A surface that is being torn down stays so until it is gone: no late
\* attach, ready or relaunch revives it.
ClosingIsNotRevived ==
    [][\A t \in DOMAIN surfaces \cap DOMAIN surfaces' :
          surfaces[t].lifecycle = "Closing" => surfaces'[t].lifecycle = "Closing"]_vars

\* A closed tab returns only under another attempt than the one that closed,
\* and only when its close has ended: while it is fenced no topology commit,
\* activation or launch holds it.
FencedTabStaysClosed ==
    [][\A t \in DOMAIN tombstones :
          /\ t \notin LiveTabs(windows')
          /\ t \notin DOMAIN activations'
          /\ t \in DOMAIN surfaces' /\ surfaces'[t].lifecycle # "Closing" =>
                /\ Ended(operations[tombstones[t].op])
                /\ operations'[surfaces'[t].op].attempt # operations[tombstones[t].op].attempt]_vars

\* Neither the surface nor the tab comes back to life by anything that was on
\* its way when the tab was closed.
ClosedStaysClosed == ClosingIsNotRevived /\ FencedTabStaysClosed

\* While a window lives its generation never goes back, and within one
\* generation neither does its placement sequence; its UI sequence goes back
\* only to 0, by a commit that carries none: a late commit overwrites nothing.
CommitsAreOrdered ==
    [][\A w \in DOMAIN windows \cap DOMAIN windows' :
          \/ windows'[w].generation > windows[w].generation
          \/ /\ windows'[w].generation = windows[w].generation
             /\ windows'[w].placement >= windows[w].placement
             /\ windows'[w].ui >= windows[w].ui \/ windows'[w].ui = 0]_vars

=============================================================================
