# TLA+ verification of Rion Studio

Rion Studio is a desktop launcher for browser games: an Electron shell that shows
game surfaces in tabs and windows, driven by a Core written in Rust
(`src/crates/rion-core`). The Core decides; the shell carries out *effects* and
reports *events*. This project models the parts of the Core, and of the shell that obeys it,
where the order of things decides whether it is right: threads under mutexes and
condition variables, operations that take several locks, effects that are answered
late, twice or never, callbacks between two awaits, commands that were decided on a
state that is gone when they run.

Paths below are relative to `src/crates/rion-core/src/` unless they start with `src/`.

1. [Inventory](#1-inventory)
2. [Plan](#2-plan)
3. [The modules](#3-the-modules)
4. [What is checked](#4-what-is-checked)
5. [What the code does otherwise than it says](#5-what-the-code-does-otherwise-than-it-says)
6. [What is proved](#6-what-is-proved)
7. [What is not modelled](#7-what-is-not-modelled)

## 1. Inventory

### How the parts interact

```
 renderer UI ── commands ──> Core façade (app/)
                               │ acquires  operation leases        browser_operations.rs
                               │ acquires  embedded sequence       runtime_sequence.rs
                               │           / scoped sequence       runtime_scoped_sequence.rs
                               │ submits   intents, one at a time  runtime_kernel/, browser_runtime/
                               │ starts    operations              operation_actor/
                               ▼
   effects, cancellation records ──>  Electron effect coordinator  src/src/electron/main/coreEffectCoordinator.ts
   results, native events        <──        native tabs, windows, surfaces
```

A user action typically takes a *lease* on the roles it touches, enters the
*embedded sequence* (a critical section of the whole embedded runtime), submits
commands to the kernel's actor thread, leaves the sequence, runs one or more
*effects* through the operation actor, and enters the sequence again to commit or
to undo. Between any two of these anything else may happen.

### Components

For each: its state, its operations, what is hard, what makes it correct.
"M" is modelled, "P" partly, "-" not yet or never (see [the plan](#2-plan) and
[section 7](#7-what-is-not-modelled)).

| component | state | operations | hard | correct when |
|---|---|---|---|---|
| **Operation actor** (M) `operation_actor/` | shared ledger: operations and their cancel flags, pending effects, the last completed effects; one thread per operation with its step, its stack of compensations, its first-dispatch fence | start, cancel, dispatch results, shutdown; the thread: admit, emit, mark, wait, expire, compensate | effects are emitted outside the mutex; cancellation records are computed under it and emitted after it; results race timers; capacity refusals in the middle of an operation | every step that may have happened is compensated, in reverse, or known not to be; one record per cancelled effect, after its request; each answer accepted once; every operation ends |
| **Runtime kernel** (P) `runtime_kernel/` | live windows and their tabs, logical surfaces, operations, tombstones, activations, the live drag | ~20 intents, each validated on a copy and committed or dropped | intents rest on old snapshots; native events of an old surface; close, relaunch and move of one tab cross each other | no intent but one that carries bad data fails validation; a closing tab is not revived; the fence of a closed tab holds until its close ended and its surface is gone; an activation follows its tab |
| **Role ownership** (M) `browser_runtime/` | owner of each role with a generation; tabs with role slots | create and close tabs, role transitions, release, claim (takeover), mute | takeovers and mutes run native effects between the snapshot and the commit | an owner always has its slot; all slots of a role tell the same story; nothing decided on a replaced owner is applied |
| **Browser operation leases** (M) `browser_operations.rs` | tickets in a queue per role, role versions, blocked roles, shutting_down; a condition variable | acquire, complete, complete with retained roles, abort, shutdown | acquire lets go of the mutex while it waits; several queues at once; deleted roles; shutdown with waiters | overlapping leases exclude each other, no circular wait, outdated normal operations are turned down, deleted roles stay closed, waiters are released |
| **Runtime sequences** (M) `runtime_sequence.rs`, `runtime_scoped_sequence.rs` | wrapping tickets; a queue of tickets with scopes | acquire, drop of the permit | two critical sections in one acquire; wake-ups; ticket wrap-around | a first-come lock, per window for the scoped one; nobody is forgotten |
| **Role launch, takeover, stop** (P) `app/section_06…09`, `16`, `19` | none of its own; the locks above | launch, claim slot, stop role, stop workspace, close and move windows, change the appearance of workspaces | composition of lanes, leases, sequences, ownership and effects; failure of each effect | no operations wait for each other in a circle; native surfaces and owners agree again when nothing is in flight |
| **Electron effect coordinator** (P) `src/src/electron/main/coreEffectCoordinator.ts` | a record per effect, lanes, terminal tasks, receipt ledgers of the coordinator and of the process, the fence of window projections | enqueue, execute, continue, settle, cancel, drain, settle a window | cancellation before, during and after execution; the "app" lane; continuations off their lanes; drain; loss of the event stream; a restarted runtime | effects on one scope run in Core order; what destroys runs once; each is answered; a drain ends |
| **Macro runtime** (-) `macro_runtime/` | invocations (a tree of threads), held keys, input epochs, quiesced, stopping, transferring and recovering roles | start, hold, stop, fence, drain, resume, transfer, recover, suspend | locks per role and per macro, epochs advanced by three parties | input of an old epoch never reaches a new surface; held keys are released |
| **Updater** (P) `src/crates/rion-updater/`, `src/src/electron/main/electronChromiumUpdater.ts` | preferences, journal, receipts, handoff record and staged update on disk; single-flight check and install; the replaced bundle (macOS) | check, accept, prepare, drain, hand off, roll back, recover at start | crashes between durable steps; writes that fail after the bundle was replaced; helpers of an earlier process; another manager | an attempt that was handed off is settled by the next start, and never forgotten; a failure leaves the old version |
| **Visibility replay** (-) `runtime_window_visibility_replay.rs` | active and terminal operations, condition variable | admit, join, finish, drop | a joiner wakes after the outcome was evicted | joiners get the owner's outcome or learn that it is lost |
| **Embedded key transitions** (-) `embedded_input.rs` | holders per key and role, one pending transition per role | prepare, complete, reassert, clear | a failed transition restores what was held before | the keys held natively are those with a holder |
| **Popup lifecycle** (P) `src/src/electron/main/chromiumPopupLifecycleCoordinator.ts`, `popup_lifecycle.rs` | a record per popup with its chain of tasks and terminal promise; fences of owners that retire, move or reload; the zoom lease of a window; in the Core a phase per popup, request and event ledgers | window-open, did-create-window, window and page events, retire, move, reload, zoom, dispose; in the Core admit and apply event | the owner retires between two callbacks; windows end at any time; the Core rejects a commit | no popup outlives its owner; every end is committed; no caller waits for good |
| Window presentation and visibility, role reload (-) `app/section_22…30` | receipts of native requests | request, receive | late receipts | a later request wins |
| Session migration and recovery (-) `session_migration*`, `session_recovery/`, `session_transfer/` | journal rows, a vault of files | phases of an upgrade | a crash between the vault and the journal | no session is lost or imported twice |
| Monotonic scheduler (-) `scheduler.rs` | a heap of waits, a timer thread | schedule, cancel, shutdown | - | nothing outside its tests schedules a wait |
| Database, domain, layout, portable data, extensions, fonts, session sources, diagnostics (-) | SQLite, files, pure functions | - | in SQL and in formats | - |
| Core façade, Node-API addon, native shells, Electron main, renderer (-) | - | dispatch, marshalling, drawing | - | - |

`PROJECT.json` lists the hazards of the code, each at its line, with the properties
that watch over it or the reason why none does yet.

## 2. Plan

The order is that of importance: what every other part of the Core relies on first.

| stage | modules | abstract specification | theorems |
|---|---|---|---|
| 1 (done) | `OperationActor`; `RuntimeKernel`; `ScopedLock`, `RuntimeScopedSequence`, `RuntimeOperationSequence`, `BrowserOperations`; `RoleOwnership` | `ScopedLock`, a first-come lock on sets, implemented by both sequences and by the leases | every safety property of the actor, the kernel, ownership and the leases; that each lock serves in order |
| 2 (done) | `EffectCoordinator`; `PopupLifecycle`; `RuntimeLocks`, with `MCLocks` that puts all the locks side by side; `UpdateInstall` (manager, journal, platform installers, crashes) | the lanes of the effect coordinator implement `ScopedLock`, too | no circular wait of the operations of the Core; every safety property of the effect coordinator, the popups and updates |
| 3 | `RoleFlows`: what launch, takeover and stop do to owners and native surfaces under the locks of `RuntimeLocks`. `EffectProtocol`: `OperationActor` and `EffectCoordinator` with the records and results between them | an effect that is run at most once and answered exactly once, implemented by the composition | - |
| 4 | `VisibilityReplay`, `KeyTransitions`, `MacroInput` (epochs, fences, transfer, recovery) | a single-flight call | their safety, from one invariant each |

Runs of the later stages: two roles, two tabs and one takeover against one stop for
`RoleFlows`; two effects, one cancellation and one deadline for `EffectProtocol`.

The modules keep to a form that can be proved about: parameters are `CONSTANTS` with
named assumptions, an operation is an action, invariants are conjunctions of named
parts, and none of them declares a `RECURSIVE` operator.

## 3. The modules

Below "step" means one atomic action. Every definition that stands for code is
mapped to its lines in `PROJECT.json`. Comments that say *Mutant* mark a wrong variant
of the definition after it: a plausible bug, that shows that the property next to it in
`PROJECT.json` can fail.

### OperationActor (`MCOperationActor`)

`operation_actor/section_01_default_pending_effect_capacity.rs`. A step is one critical
section of the mutex, or one call between two of them, so that TLC explores every
interleaving the mutex allows.

| state | code |
|---|---|
| `shuttingDown`, `operations`, `cancelled`, `pending`, `completed`, `completedOrder` | `ActorState` and the cancel flag shared with each thread |
| `sending`, `channel`, `overdue` | results taken out of `pending` and not yet sent, the oneshot channels, the clock |
| `emitted`, `outbox`, `published`, `reports` | what the emitter was called with, what a caller is about to emit, and how answers were classified |
| `pc`, `plan`, `at`, `mode`, `undo`, `held`, `failure`, `fence` | locals of `run_operation` and `execute_effect`, the first-dispatch fence |
| `undone`, `undoFailed` | history: compensations that succeeded or failed |

`Start`, `Spawn`, `SpawnFails`, `RuntimeFails` are `start_with_kind`; `CheckCancelled`,
`Admit`, `Refuse`, `Emit`, `MarkDispatched`, `Recall`, `Receive`, `TimerFires`, `Expire`,
`NotifyDeadline`, `Finish`, `Leave` are the thread; `Cancel`, `Shutdown`,
`EmitCancellation`, `DispatchResult` and `SendResult` are the callers;
`DeadlineElapses` is the clock. The host is any host that answers effects it was sent, up to
`MaxReplies` times each, rightly, with a rejection or with a foreign operation id.
Abstracted: payloads, the text of errors, the duration of deadlines (a deadline elapses
at any time after the admission), UUIDs (an effect is named by operation, step and
direction, each of which happens at most once). A thread blocked on a full event channel
is a thread that is slow.

### RuntimeKernel (`MCRuntimeKernel`)

`runtime_kernel/state.rs`, `state/tab_activation.rs`, `state/tab_drag.rs`,
`state/validation.rs`. One step is one committed intent; an intent that is refused, superseded
or a duplicate changes nothing and is no step. Any intent is offered in any state.
Maps are functions on the set of their keys. Left out or abstracted:

- the order of the tabs in a window: a topology commit without an active tab takes
  *some* tab as the first (`picks`);
- the aggregate revision and `expected_revision`, which only turn steps away;
- the eviction of `applied_operation_ids` after 4096 entries;
- attempt and generations inside a surface or a tombstone: those of its operation;
- presentation, zoom, names, audio, role slots; `ReplaceWindow`; updates between the start
  and the end of a drag; `CreateTab` except where it retires the tombstone of a closed tab
  (`RecreateTab`).

`BeginOperation`, `FailEventStream`, `TerminalizeOperation`, `SetWindowGeneration`,
`EnsureWindow` and `SeedDormantTabs` are part of the kernel's interface but are only
submitted by its tests today; the model offers them like the others.

Noticed while modelling, and not findings because nothing in the repository says
otherwise: `RemoveWindow` keeps surfaces that are Ready; operations are never pruned;
`CommitPlacement` advances the generation of a window without fencing its
activations as the other generation changes do; `FailEventStream` leaves an activation
Attaching after its launch failed.

### ScopedLock, RuntimeScopedSequence, RuntimeOperationSequence, BrowserOperations

`ScopedLock` is the abstract specification: a thread asks for a set of scopes and is
granted it when nobody holds, and nobody asked earlier for, one of them. With
`MayRefuse` a waiting request may also be turned down. Its state is who waits, for each
of them who asked before it, who holds, and what they want. It has two halves: `InOrder`
(requests are served only like this) and `Decided` (a request that nobody stands in the way of is
decided). Each lock defines who waits and holds, `Before` and, where the code has no such variable, `Wants`, and
substitutes them; `ServedInOrder` and `FreeIsServed` are the two halves of what it promises.

- `RuntimeScopedSequence` (`runtime_scoped_sequence.rs`): tickets wrap modulo `TicketSpan` (2^64 in the
  code). `acquire` is one critical section unless it has to wait; `Recheck` is a woken
  waiter, `WakeSpuriously` the condition variable's licence. The scopes of a thread are the
  windows it mutates. Assumption: no ticket is still queued when the counter comes round
  to it (guard of `Enter`).
- `RuntimeOperationSequence` (`runtime_sequence.rs`): one scope, ticket taken in one critical section
  and awaited in another (`TakeTicket`, `Look`).
- `BrowserOperations` (`browser_operations.rs`): queues per role, versions and blocked roles;
  `Acquire` is queueing and the first look, `Recheck` a later look; `Complete`,
  `CompleteRetained`, `Abort` and `BeginShutdown` are the methods of those names. An id of
  an operation is used once, as the UUIDs of the code are. The model refines
  `ScopedLock` with `MayRefuse`.

Lock poisoning is left out of all three: it takes a panic inside a critical section.

### RoleOwnership (`MCRoleOwnership`)

`browser_runtime/section_01_browser_runtime.rs`. One step is one command that succeeds on the
kernel's actor thread (a command that fails changes a copy that is dropped). `roles`,
`tabs` and `next_owner_generation` are the fields of `RoleOwnershipRuntime`; a slot is
named by its role, of which a tab has at most one (`validate_role_slot_inputs`). The callers
that matter are those who take a snapshot and send the command later: `PlanClaim` and
`PlanMute` record what the snapshot shows in `intents`; `ClaimRoleSlot` and
`SetTabAudioMuted` run the command, `Refused` is one that fails. `outrun` is history: whether
the owners the intent rests on have been replaced since.

### RuntimeLocks (`MCRuntimeLocks`, `MCLocks`)

How the operations in `app/` compose the locks. An operation is a sequence of steps, each
of which asks for some locks at once or drops some; what it does in between is left out.
`flow` is what is left of it, `held` what it holds, `ahead` who asked before it. `Begin` and
`Ask` queue, `Grant` is the lock's decision, `Drop` the end of a block with a permit, `Return`
the end of the operation, which an error may bring about at any step and which drops
everything. That each lock serves like this is what `EachServesInOrder` and `WaitersGoOn` say of the locks themselves.

| operation | code | locks, in order |
|---|---|---|
| `Stop` | `stop_embedded_role`, `stop_embedded_workspace…` | leases; runtime, dropped for the native effects, and taken again |
| `TakeOver` | `claim_embedded_role_slot` | lease; three sections in runtime |
| `WindowCommand`, `UiAction` | `apply_embedded_runtime_command`, `section_19` and its like | window and runtime; runtime |
| `CloseWindow` | `admit_embedded_window_close…`, `stop_embedded_window` | leases, window, runtime; the leases stay |
| `HostEvent`, `HostMove`, `HostStop` | `handle_appkit_runtime_event` | the lanes of the windows; then `CloseWindow`, perhaps of both windows (also when the native host could not apply the projection), or `Stop` with the lane dropped first |
| `ProjectAppearance` | `replace_game_browser_settings`, `patch_game_browser_settings` | appearance, runtime, lanes; leases and window if a window must be closed |

Operations that only take a lease, or only the runtime sequence, are like the first steps of these. The
lock of the mutexes inside the locks, the mutex of the operation actor and the waiting for a native effect are not in
the model: an effect that is answered only after a lock is free would be a circle that it cannot show.

`MCLocks` extends the scoped sequence and instantiates the other locks and `RuntimeLocks`
beside it; `subject` chooses at the start which of the four a behaviour is about.
`MCRuntimeLocks` confines `RuntimeLocks` to two flows: a change of the appearance while a window is closed
by its user (`WhileClosing`).

### EffectCoordinator (`MCEffectCoordinator`)

`src/src/electron/main/coreEffectCoordinator.ts` and
`src/src/electron/main/runtimeWindowProjectionFence.ts`. One JavaScript thread: a step is what
happens between two awaits, in a callback, or in a call from outside.

| state | code |
|---|---|
| `state`, `routed`, `drain` | `#state`, `#eventStreamFailureRouted`, the awaits of `#drainTasks` |
| `tasks` | every delivery of an effect and the async function that serves it: its phase, cancellation reason, answer, and the terminal of its projection |
| `records`, `order`, `lanes` | `#recordsByEffectId`, `#effectRecordOrder`, `#lanes` |
| `receipts`, `exhausted` | the destructive ledger of the process, which outlives the coordinator |
| `reader` | a caller of `settleWindowProjection` |

`Deliver` is `#enqueue` in its four outcomes (replay, reused id, full ledger, new task);
`Begin`, `ExecuteEnds`, `ExecuteContinues`, `ContinuationEnds`, `Acknowledged` are the task,
`Replay` one that repeats an answer; `Cancel`, `CoreShutdown`, `Dispose`, `StreamFails` the calls
and events, `DrainStep` the drain, `Recreate` the next coordinator of the process (one at a
time), `AskWindow`, `ReaderPasses`, `ReaderFails` the fence. Abstracted: error codes, as far as no property
tells them apart; a continuation whose `cancel` throws ends like one that failed; a
cancellation that names another operation than the record's does nothing and is no step; the errors that dispose
collects. Of a task that is done the model forgets the reason. The readers of the
projection *sequence*, which the Core's own commits also advance, are left out.

### PopupLifecycle (`MCPopupLifecycle`)

`src/src/electron/main/chromiumPopupLifecycleCoordinator.ts`, with the phases of
`popup_lifecycle.rs`. A step is a callback of Electron, a call of the coordinator, or what follows an
answer of the Core.

| state | code |
|---|---|
| `popups` | `#records`: state, chain (`queue` is `sequence`, `step` the commit it awaits), terminal promise; the native window; the phase of the Core's record (`core`) |
| `calls` | the awaits of each call in progress |
| `retired`, `moving`, `leases`, `zoomLease` | the fences of owners and of the window |
| `factor` | the zoom factor of the parent window |

The Core's record changes when its answer is taken, which is exact since a chain has one
commit under way; a commit that is rejected (`StepFails`) was not applied. All popups have one parent window. Abstracted: why
a popup closes, bounds and display, the titles and URLs. Left out: the eviction of old retirement fences.

Noticed while modelling: the zoom lease is looked at when a window is allowed, not again when it is
created, so that a popup created meanwhile is shown with the old factor, and a popup may refuse the rollback
of a transaction, which is reported as unknown compensation (`ZoomFollowsWindow` exempts both, `astray`); the fences of the owner are not looked at again after the
Core has taken the native window (:742), where only the call that fenced the owner closes the popup; when the commit of
an end is rejected and the failure is then reported of a window that is gone, the Core's record stays
*Closing* (`popup_lifecycle.rs:378`), since the shell has no further event for it.

### UpdateInstall

`src/crates/rion-updater/src/manager.rs`, `manager/check.rs`, `manager/install.rs`, `persistence.rs`,
`platform_install/` and `src/src/electron/main/electronChromiumUpdater.ts`. A step is one durable
write, one native call or one critical section of the manager's mutex, and the process may end
after each.

| state | code |
|---|---|
| `installed`, `backups`, `journal`, `receipts`, `handoff`, `staging` | what is on disk: the bundle or program and the bundles put aside, the install journal, the terminal receipts (named by their journal, as the hash in the code does), the handoff record, the staged artifact, manifest and receipt |
| `boot`, `running` | how far the program is in its start, and the version that runs |
| `manager`, `workflow`, `grants` | `ManagerState` and the installer's `prepared`; the promise `#installWorkflow`; acceptances between the two |
| `helpers` | the processes that outlive the program: relaunch helpers (macOS), installers (Windows) |
| `launched`, `spoiled`, `foreign` | history: attempts handed off, not undone, accepted by another manager |

`Boot` is `reconcile_install_journal`; `Finalize`, `ClearPending`, `CommitReceipt`, `RemoveJournal`
and `RestorePending` are the rest of `ChromiumUpdateManager::new`, in its order; `StartFails` is
the shell's answer to its error. `CheckStarts` to `CheckFails` are a check, `AcceptInstall` and
`DeliverAcceptance` an acceptance. `PrepareBegins` to `AttemptFails` are `#runInstall` with the calls of
the manager and the installer in it; where a call journals a phase the attempt changes in memory
first, and the write may fail before or after it replaced the file (`Transition`, `WriteJournal`).
`Start` is a start by the user, or by a helper, of which `HelperValidates`, `HelperEnds`,
`HelperFails` are the other ends; `InstallerRuns` stands for the external installer of Windows.
`ForeignAccepts` and `ForeignRecovers` are another manager of the same directory, while this one
recovers. Abstracted: versions are numbers, attempts are numbered in the order of their acceptance,
a process is named by the start it belongs to. Left out: journals that cannot be read, preferences and automatic checks, the stream of
statuses, and callers who wait for an operation in progress.

Noticed while modelling, beyond the findings of section 5: after a write that fails in `PrepareBegins`
the attempt stays active in memory without a workflow, so that no other is accepted before a
restart; `DeliverAcceptance` drops an acceptance that arrives before the earlier workflow has
ended (`electronChromiumUpdater.ts:232`), with the same result; a read that fails during the cleanup
(`persistence.rs:613`) does not quarantine the manager; and a handoff record that could not be
removed makes `finalize_applied` of a later attempt fail at each start.


## 4. What is checked

Each run finishes within about three minutes. Every passing run checks each property in all
reachable states of its instance, and every property has a mutant that breaks it. The four
runs that are expected to fail are in [section 5](#5-what-the-code-does-otherwise-than-it-says).

| run | properties | shows |
|---|---|---|
| `OperationActorUnwind` | `CompensationComplete`, `UndoInReverse`, `OperationsEnd`, `FenceResolves` | One operation of up to three compensated steps, answered, rejected, cancelled, timed out or shut down at any point: compensation is complete and in reverse, the first-dispatch fence resolves, and the operation ends if the host answers or all its effects have deadlines. |
| `OperationActorPair` | `OneNoticeAfterRequest`, `CancelReachesHost`, `AnswersClassifiedOnce` | Two operations that compete for one pending slot, cancelled and shut down concurrently, answered twice or for another operation, with a completed ledger of one entry: every cancellation record is published once and after its request, an effect that is cancelled is recalled, and answers are classified once. |
| `RuntimeKernel` | `FenceFollowsClose`, `OutcomeReportedOnce`, `ActivationFollowsTab`, `AuditPasses`, `ClosedStaysClosed`, `CommitsAreOrdered` | Three instances: a tab that is launched, closed and launched again by three operations and two attempts; a tab that moves between two windows while its launch goes on and the windows advance; two tabs of a window, selected, hidden and closed under commits of old and new generations and sequence numbers. Each meets every intent, native event, stream failure and window removal in every order: a closed tab stays closed and fenced for as long as its close, a launch follows its tab, its outcome is reported once, late commits overwrite nothing newer, and none of the intents modelled but a topology commit can fail the kernel's own validation. |
| `Locks` | `BlockedUntilAborted`, `OutrunIsTurnedDown`, `NoCircularWait`, `EachServesInOrder`, `WaitersGoOn` | Three threads at each lock of the Core, again and again: the lanes of windows, the embedded sequence and the leases of roles are first-come locks, of which only a lease may be refused and none leaves waiting what nothing stands in the way of, even if other permits are kept for good, with the additional promises of the leases, such as that a shutdown releases their waiters; and the operations that compose them, each of which may fail at any step, never wait for each other in a circle as long as the appearance of workspaces is left alone. |
| `RoleOwnership` | `OwnersAndSlotsAgree`, `StaleIntentsAreRefused`, `OwnersGoForward` | Two roles, one launched on its own and both in a workspace, over three launches in two tabs and windows: launches, takeovers, releases, moves and closed windows in any order, with a caller that acts on an earlier snapshot. |
| `EffectCoordinator` | `CancelledAnswers`, `DestructiveRunsOnce`, `DisposedIsQuiet`, `FenceIsCoherent`, `ServedInOrder`, `EffectsGoOn` | Up to three effects, on one window, on two and on everything, destructive or not, delivered again, cancelled, drained or cut off from the event stream at any point, over two coordinators of one process: lanes are first-come locks, what destroys runs once, a cancelled effect is answered as such, the fence of a window holds, no effect is forgotten in its queue, and a drain ends and leaves nothing behind. |
| `PopupLifecycle` | `FencesKeepPopupsOut`, `ZoomFollowsWindow`, `MoveLeavesNoPopup`, `ClosedIsReported`, `CallsReturn` | Two popups of one owner, each opened, admitted, shown, loaded and closed, with one native event, one failure and any two of a retirement, two moves, a reload, a zoom change and a disposal: fences keep popups out and leave none behind, zoom factors agree, ended windows are reported, and no call waits for good. |
| `UpdateInstall` | `NothingIsForgotten`, `EveryStartSettles`, `FailureRestores`, `HelpersAreEndorsed`, `InstallableIsStaged`, `AppliedIsFinal`, `OthersAreKept`, `RelaunchFollows` | Up to three attempts over four starts on macOS and Windows, with a crash between any two steps, two writes or native calls that fail and one interference of another manager: an attempt that was handed off is never forgotten and settled by the next start that succeeds, a failure that is reported leaves the old version in place (but for a drain that cannot be journalled, see [section 5](#5-what-the-code-does-otherwise-than-it-says)), helpers find their records, and a handoff starts the program again. |

### Bounds, and why they are enough

- *Operation actor.* Three steps (`MaxSteps`) are the least with a stack of more than one
  compensation while a third step fails. One pending slot (`PendingCapacity`) is the capacity
  at which a compensation, too, is refused. A completed ledger of one entry
  (`CompletedCapacity`, in `Pair`) evicts at once, of eight never does. Two operations are
  needed to compete for a slot and to be cancelled independently; a third one adds
  no new pair of neighbours, since an operation meets the others only in the ledger. Two
  answers (`MaxReplies`) are an acceptance and a duplicate, or one after the deadline or the
  eviction. The plans (`MCOperationActor`) hold both policies, with and without
  compensation, and both values of `compensate_on_rejected_result`.
- *Runtime kernel.* Three instances in one run (`MCRuntimeKernel`), each with what its question needs.
  `Closing`: three operation ids are a launch, the close and the relaunch of one tab, and two
  attempts tell the launches apart; its window has one generation. `Moving`: two windows and
  generations 0 and 1 let a tab move by commits that advance its new window, and its old and new
  window advance by their own intents after the launch saw them. `Selecting`: two tabs of one window,
  because staleness is decided per window, and layouts of generation 0, which the window may
  have left behind, with sequence number 1 or none.
- *Locks.* A circle of waiters needs two scopes and two threads; overtaking
  needs a third. Three leases are a mutation, and two that wait behind it. Tickets wrap after 4 or 6,
  more than there are threads, so that the counters wrap many times in a run. The three
  operations of the composition run on one window with two roles; the theorem about
  them covers any number of either. A behaviour of `MCLocks` is of one of its four
  subjects, so that the state spaces add up instead of multiplying.
- *Role ownership.* Two tabs that both have a slot for a role are a takeover and one back; three
  launches (`MaxAttempts`) let a tab be closed and launched again; three owners
  (`MaxGeneration`) are an owner, another, and the first one's return. One caller with an open intent is enough, because
  every command is also offered without an intent.
- *Effect coordinator.* Three instances in one run (`Bounds`): three effects on one
  window, on two and on everything are the least in which one is overtaken or not and
  the "app" lane is a barrier between others; two deliveries over two coordinators are a
  replay within one and after a restart, with a reader at the fence; three destructive
  effects, two of which fit in the ledger of the process. The ledger of the coordinator keeps
  nothing (`Receipts = 0`) but what has not settled, so that a record is forgotten as early as the code can.
- *Popups.* Two popups are the capacity of the instance (`MaxPopups`, 64 in the code), so that one may take
  the other's place. Any two of the six calls are made; of popups, owners
  and calls the races are between pairs. One native event and one failure each hit every
  step; a second failure in a row ends the record in the code, so that nothing more follows from it.
- *Updates.* Three versions and attempts (`MaxVersion`, `MaxAttempts`) are an update, one that fails or is
  another manager's, and one after it. Four starts are the first one, one that a crash interrupts,
  one that repeats its recovery and one after. Crashes are not bounded but by the starts. Two faults (`MaxFaults`) are a failure, and one of what
  undoes it. One interference (`MaxForeign`) is an acceptance or a recovery by another manager.

Operations, operation ids and attempts of the kernel, and tabs and windows of role ownership are
symmetric; the runs that use it check no liveness property.

`CHECK_DEADLOCK FALSE` is set where the system or its bounds come to an end: the actor,
whose operations end; role ownership, whose launches and owners are used up; the effect
coordinator, which is disposed; popups, whose calls and events are used up; updates, whose attempts and starts are; and `MCLocks`, where a lease
may be kept for good. There `WaitersGoOn` (whoever nobody stands in the way of is served) and
`NoCircularWait` say more than the absence of a deadlock. The kernel is checked for deadlock.

### Fairness, and why the code justifies it

| specification | assumes | because |
|---|---|---|
| `OperationActor!LocalSpec` | threads are scheduled, timers fire, a caller that left the mutex goes on | one OS thread per operation with its own runtime; callers do not block between the mutex and the emitter or the channel |
| `OperationActor!HostFairness`, the premise of one half of `OperationsEnd` | the host answers each effect it was given | the Electron coordinator acknowledges every effect it admitted, also when it cancels or drains (`src/src/electron/main/coreEffectCoordinator.ts:724`) |
| `RuntimeScopedSequence!Fairness`, `RuntimeOperationSequence!Fairness` | a woken thread gets the mutex | the mutex is held only for the critical sections modelled. *Nothing* is assumed of a permit: one that is kept for good must not hold up an unrelated window |
| `BrowserOperations!Fairness` | a woken thread gets the mutex | *nothing* is assumed of a lease: a mutation may keep it for good, and shutdown must release the waiters all the same |
| `EffectCoordinator!FairSpec` | a task whose promises have settled goes on; the host ends what it executes, and a continuation once it was told to; the Core classifies an answer | one event loop; the executor ends or throws, and its continuations end when their `cancel` is called; `dispatchCoreEffectResults` is a call into the Core. *Nothing* makes a native event arrive that was not cancelled |
| `PopupLifecycle!FairSpec` | a chain goes on, the Core answers, a call whose promises have settled goes on | one event loop; commits are calls into the Core. *Nothing* makes a window close, a page load or a holder release its lease |
| `UpdateInstall!FairSpec` | a process that means to end does; helpers run; a helper that waits starts the program when its parent has ended | `app.exit`, the forced termination after a failed drain, and the scheduling of processes. *Nothing* makes a user start the program, or keeps it from crashing |

`NoCircularWait` needs no fairness: it says of each state that somebody among the waiters can be served as soon as
those who run have gone on.

An event-bound effect has no deadline, not even after a cancel or a shutdown: without
an answer its operation never ends. The two halves of `OperationsEnd`
together say exactly that; `FenceResolves` holds without a host.

## 5. What the code does otherwise than it says

Four runs are expected to fail, each on one property that restates a comment or a document:

| run | property | the code | the text |
|---|---|---|---|
| `OperationActorLateResult` | `TimeoutKeepsCompensation` | `dispatch_results` turns a result past its deadline into a *rejected* result; with `compensate_on_rejected_result = false` the compensation of the step is dropped | comment above `run_operation`'s handling of errors: a timeout has indeterminate commit status, so the compensation is retained |
| `EffectStreamLost` | `StreamFailureWins` | the first reason of a cancellation stays (`coreEffectCoordinator.ts:756`): a continuation that the Core has cancelled already answers with its native value after the event stream was lost | comment in `settleContinuation` (:695): "no native value can restore the missing authority, so the stable stream failure wins" |
| `RuntimeLocksAppearance` | `NoCircularWait` | a window is closed by its user while the appearance of workspaces changes on macOS: the close holds the lane and the leases of its window and asks for the runtime sequence (`section_08…:351`), the change holds the runtime sequence and asks for the lanes of the windows (`section_09…:633`). Both wait for good | `src/docs/event-topology.md:27`, of an EventBound operation, which a change of the appearance is (`src/docs/chromium-runtime-migration.md:222`): "It completes from the exact authoritative event, cancellation, supersede, actor stop, or event-stream failure" |
| `UpdateInterrupted` | `InterruptedIsReported` | on macOS the bundle is replaced while the journal is *Preparing* or *Installing*. After a crash there the new version runs, the recovery takes the attempt for applied (`persistence.rs:336` of the updater), removes the backup, and then refuses the receipt because the journal has not started draining (:425): the manager cannot be constructed, at this start and every later one | `src/docs/updater-transaction-contract.md:142`: "An interrupted pre-drain transaction becomes `UPDATE_INSTALL_INTERRUPTED`" |

Two more disagreements have no run of their own:

- *A failed drain is not swapped back.* `src/docs/updater-transaction-contract.md:161` says "Any observed pre-drain
  failure swaps the backup back atomically". When the journal of the drain cannot be written,
  `begin_install_drain` (`manager/install.rs:148` of the updater) fails and undoes nothing. The workflow rejects and the shell reports a
  failed install (`electronChromiumUpdater.ts:236`); on macOS the new bundle stays installed under the old version that runs, and
  the attempt stays active until the next start, so that neither a retry nor a rollback follows. `FailureRestores` is about
  every failure that is reported, and names this one as its only exception (`LeftInPlace`); it does not hold without it.
- *A second circle with the appearance.* When the native host fails to apply a change of the appearance,
  `project_workspace_appearance` closes the window inside the runtime sequence (`section_09…:691`), which takes the leases of
  its roles (`section_08…:340`), while a stop holds the lease of its role and asks for the runtime sequence
  (`section_07_stop_embedded_role.rs:65`). `RuntimeLocks` has this behaviour as well; the run is confined to the shorter one.

Noticed, and not a finding because no shipped path reaches it: `apply_native_event`
(`runtime_kernel/state.rs:1029`) does not compare the operation that owns the surface of a
tab, so that a late `ready` of an older launch may mark the surface of a newer one. Only the
tests of the kernel submit the intents (`BeginOperation`, `SeedDormantTabs`) that give one tab
two launches at once.

One more race is known and listed as a hazard: `dispatch_results` reports a result as
accepted before it hands it to the thread, whose timer may fire in between, so that
the host is told *accepted* while the operation times out and compensates. The
compensation is complete in that case too (`CompensationComplete`). And an effect that
was refused for back-pressure, and so never reached the host, is compensated like one
whose status is unknown: its compensation may be emitted once a slot is free.

## 6. What is proved

The theorems hold for every value of the constants that satisfies the named assumptions of
the modules. TLC evaluates those assumptions on every instance.

| theorem (property) | module | for any |
|---|---|---|
| `TypeCorrect` (`TypeOK`, which no run checks), `OneRecordAfterRequest` (`OneNoticeAfterRequest`), `CancellationsReachTheHost` (`CancelReachesHost`), `FailuresAreCompensated` (`CompensationComplete`), `CompensationsRunInReverse` (`UndoInReverse`), `AnswersAgree` (`AnswersClassifiedOnce`) | `OperationActorProofs` | operations, plans, capacities, number of replies |
| `Typing` (`TypeOK`, which no run checks), `AuditAlwaysPasses` (`AuditPasses`), `FenceIsExact` (`FenceFollowsClose`), `ReportsAreExact` (`OutcomeReportedOnce`), `ActivationsFollow` (`ActivationFollowsTab`), `ClosedTabsStayClosed` (`ClosedStaysClosed`), `WindowCommitsAreOrdered` (`CommitsAreOrdered`) | `RuntimeKernelProofs` | operation ids, windows, tabs, attempts, layouts |
| `OwnersAndSlotsAlwaysAgree` (`OwnersAndSlotsAgree`), `OwnersOnlyGoForward` (`OwnersGoForward`), `NoStaleIntentIsApplied` (`StaleIntentsAreRefused`), `GenerationsAreUnique` (`GenerationsNeverReused`, which no run checks) | `RoleOwnershipProofs` | roles, sources, tabs, callers |
| `LocksServeInOrder` (`EachServesInOrder`), `PermitsExclude` (`HeldOnce`, which no run checks), `DeletedStayBlocked` (`BlockedUntilAborted`), `OvertakenAreTurnedDown` (`OutrunIsTurnedDown`), `CoreNeverDeadlocks` (`NoCircularWait`) | `LocksProofs` | threads, windows, ticket span, roles, kinds; a finite set of operations for the last |
| `NoDeadlock` (`NoCircularWait` of `RuntimeLocks`) | `RuntimeLocksProofs` | windows, roles, finite set of operations; the appearance left alone |
| `ClearsAtMostOnce` (`DestructiveRunsOnce`), `CancelledAreAnsweredSo` (`CancelledAnswers`), `FenceLetsNothingBy` (`FenceIsCoherent`), `StoppedIsQuiet` (`DisposedIsQuiet`), `LanesServeInOrder` (`ServedInOrder`) | `EffectCoordinatorProofs` | effects, ids, scopes, ledgers, deliveries, coordinators |
| `FencedStayOut` (`FencesKeepPopupsOut`), `ShownAreZoomed` (`ZoomFollowsWindow`), `MovedLeaveNone` (`MoveLeavesNoPopup`) | `PopupLifecycleProofs` | popups, owners, calls, limits |
| `LaunchedIsNeverForgotten` (`NothingIsForgotten`), `JournalsOfOthersAreKept` (`OthersAreKept`), `PendingIsStagedWhole` (`InstallableIsStaged`), `HelpersFindTheirRecords` (`HelpersAreEndorsed`), `FailuresAreRolledBack` (`FailureRestores`), `StartsSettle` (`EveryStartSettles`), `ReceiptsAreFinal` (`AppliedIsFinal`) | `UpdateInstallProofs` | versions, attempts, starts, faults, interferences, on both platforms |

With these every invariant that a passing run checks, every action property and the safety half of every
refinement is a theorem. All of them are safety, and none of them assumes fairness. The assumptions are
`PlanAssumption` and `CapacityAssumption` (a plan is a sequence of one of the offered
ones, capacities are positive), `OptionAssumption`, `NumberAssumption` and `LayoutAssumption`
(what stands for None is no operation or tab, attempts and bounds are numbers, the layouts
offered have the shape of one), `SpanAssumption` (at least one ticket) and `SequenceAssumption` (finitely
many threads, and more tickets than them),
`SlotsAssumption` (a source has slots for roles), `RequestAssumption` and
`BoundAssumption` (every effect has a scope, bounds are numbers), `PopupAssumption` (a call has a kind,
bounds are numbers) and `UpdateAssumption` (bounds are numbers); `NoDeadlock` and `CoreNeverDeadlocks` state that
the operations are finitely many.

**No circular wait.** A lock has a rank: lanes 1, leases 2, the window sequence 3, the runtime
sequence 4. `Ordered` says of an operation that whatever it holds when it asks for a
lock has a lower rank, unless it releases it before, and that the locks it asks for
at once have one rank; one lemma for each operation shows it of the whole operation, and
`GrantKeepsOrder`, `DropKeepsOrder` of what is left of it. `WaitersInOrder` adds that who
asked before whom is an order. Then, of any operations that wait, take those that ask for the
highest rank, and of these the one that asked first (`FirstOfWaiters`, from the
least number of predecessors, which exists since numbers are well founded): another one of them
that it waited for would hold a lock of a rank as high as what itself asks for (`WaitsUpwards`). `ProjectAppearance` is not
`Ordered`, and the run that allows it shows a circle. `CoreNeverDeadlocks` carries the result over to
the composition of all locks in `MCLocks`, whose steps are steps of these operations or leave them alone.

**Effect coordinator.** `Inv == Numbered /\ Receipted /\ (each task is Sound) /\ ReaderOK`. Destructive
effects are executed once since the receipt of the process names the task that does
(`Receipted`), and a receipt is never dropped: the coordinator's own records, which are pruned and
die with it, play no part. A cancelled effect is answered as such by what a task tells
of itself (`Sound`): its phase, reason and answer. The fence is right since a reader waits for every projection
that is not over (`ReaderOK`), and a projection is settled only with the acknowledgement. Most actions
change one task, and neither what it runs nor whether it is done: `SameTasksKeepInv`.

That nothing is left when a coordinator has stopped is a property of the lanes (`LaneInv`). A drain
awaits only the *last* effect of each lane, and while it does so further effects cannot come, but
those before the last one may be anywhere. `LanesEnd` and `InTurn` say why that is enough: no effect on
a lane outlives the one the lane ends in, and while an effect is on a lane those after it are
queued. `InTurn` in turn needs to know what a queued effect waits for: for each effect before
it that it meets (they share a scope, or one is on "app"), that one or one in between on a lane of the first
(`Awaited`), which remains true when that one has left the lane. `Onward` names what a step may
do to lanes. The same two parts show that the lanes serve in order: an effect begins when
nothing that it awaits is on a lane, so none before it that it meets is, and none after it, as
those are queued (`BegunIsFree`).

**Type invariant of the actor.** `Inv1 == TypeOK /\ InPlan`. `TypeOK` alone is not
inductive: that `Current(o)` is an effect of the plan, and that the stack of
compensations names steps of the plan, needs `at[o]` to be within it while the thread runs,
which is `InPlan`. One lemma per action; those of the thread share
`UnwindType`, `FailType`, `AdvanceType` for the three ways in which an attempt ends.

**Cancellation records.** A record is created by whoever marks a pending effect
(a canceller, a shutdown, or the thread itself on a deadline or after it emitted), under the
mutex, and published by that party after it. The three properties therefore need to
know where a record may be (`outbox`, `held`, `published`) as a function of the pending
entry, and that an effect is never admitted a second time, when its old record would be
still about. `NoticeInv` says that:

- `StackOrdered`, `CallInProgress`, `NotAhead`: the thread goes up its plan and down its
  stack, so that an effect is admitted once, and what it waits for has been emitted;
- `PendingIsCurrent`: an entry in `pending` belongs to the effect its thread is
  executing, and is `Emitting` exactly while the thread is at the emitter;
- `ReasonMatchesNotice`: a record exists exactly when the entry is dispatched and has a reason (the
  record of an entry that is still being emitted is deferred to its thread), and an entry
  of a cancelled operation has a reason;
- `OneNotice`: a record is in one place, once;
- `ResultTaken`: an entry that was answered does not come back.

The proof goes by frames: most actions leave most effects alone, and `Framed` says which
variables an effect's part of the invariant reads.

**Compensations.** `CompInv(o)`: the compensation of each step that needs one is settled, on the
stack, or that of the step the thread is at (`Accounted`); the thread goes forward as long as nothing failed,
and a failed operation ends with an empty stack (`Direction`). The hard case is an answer
that comes late: a step *begins* to need its compensation when its effect is emitted, and may cease to
when its answer is known, never the other way round (`NothingNew`), so that no step can fall due after the
thread has passed it. The order of compensations follows with `StackOrdered`: when one
is emitted, the stack above it is gone.

**Answers.** `AnswerInv(e)`: the classifications so far are `Consistent`, the ledger remembers enough of
them (`LedgerTells`: only mismatches while the effect is pending, an accepted answer once it is completed,
late ones once it has timed out), and only the thread that has taken the effect out
of `pending` speaks of a deadline (`DeadlineTells`). An effect that is
evicted from the completed ones is *unknown* from then on, which contradicts nothing.

**Runtime kernel.** `Inv` is the conjunction of the type invariant, the four invariants of the runs and three
more. None of the four is inductive alone, since each intent relies on the others: a native event that ends a close looks at the
tombstone, the surface and the operation of a tab, which must be of one close. `FenceNamesClose` is the link: a
tombstone names a close of its tab, nothing else is pending on that tab, and once a native event has
ended the close the surface is gone. `ClosingAwaitsClose` says that what is being torn down waits for
nothing but a close, and `KnownIds` that an operation id is never used twice. The proof has one lemma for
each intent, and under it one step for each conjunct; `validate_state` is assumed of nothing but topology commits, which
is what the code says: `AuditPasses` follows for all the others.

**Popups.** `Inv` says of each record what it may be (`Sound`: phases, chain and window agree, and an
admission is the first task of its chain), of a popup that is on the screen or about to be that it has the factor
of its window (`Zoomed`), and of each call under way what it has found and what
can no longer come: an end awaits every record that is left (`Ends`), a reload
and a change of the zoom every admission (`Reloads`, `Zooms`). That moves are counted per owner and not marked is what lets
two moves of one owner overlap (`MovesCounted`: `moving[o]` is the number of moves under way). The handlers
of a popup are treated alike by a relation between a record before and after (`Evolves`): nothing
but a new window begins an admission, and nothing that is over comes back.

**Scoped sequence.** `Inv == PermitTypes /\ HeldOnce`: `active` is the union of what the
permits hold, and permits are pairwise disjoint. The queue and the tickets play no part:
exclusion holds whatever the order, even if two tickets were equal. The queue adds the
order (`QueueInv`): it holds the waiting threads, each once, under its own ticket and scopes.
`OrderAppended` shows what a request put behind the queue leaves, `QueueLeft` what taking an element out of a sequence of distinct ones leaves: every other one, in the same
order. So a thread that comes is behind all that wait, one that goes leaves the order
of the others alone, and one that is not blocked overlaps nobody before it, which is what `ScopedLock` asks of a
request, a grant and a release (`EnterWaits`, `EnterHolds`, `RecheckHolds`, `DropReleases`).

**Embedded sequence.** `SequenceInv`: the tickets in use are distinct, lie before the next one as the
counters wrap, and are as many as the counters say; the holder has the one being served. With more
tickets than threads (`SpanAssumption`) the count never reaches the span (`UsersAreFew`), so a ticket just taken is
behind all others (`TicketIsLast`), and the thread whose ticket is served has nobody before it.

**Leases.** `LeaseInv` adds to the two properties that the roles of destructive leases are apart from each
other and from the deleted ones (`Separate`), so that giving one back opens nothing that another closed;
that a ticket remembers versions that are not ahead of the roles', and differs from them exactly when the
operation was overtaken (`OutrunIsChanged`: versions only grow); and that tickets are held by those who
wait or hold (`TicketsAreHeld`). The queues play no part in it. They do in the order (`ArrivalInv`): `arrivals`
lists whoever has a ticket, once, and the queue of a role holds those of them that asked for it, in that order (`Fits`). An operation that
heads all its queues therefore overlaps none that came before it, and an ended one leaves `arrivals` and every
queue with the others in their places (`AcquireInOrder`, `RecheckInOrder`, `EndedInOrder`).

**Ownership.** `Inv == Placed /\ Counted`. `Placed`: owners have their slots, and slots
show their owners; every command that changes the owners ends in `refresh_slot_states`
(`UpdateKeepsPlaced`). `Counted`: an owner is among those created, and none of them is
later than `next_owner_generation`, so that the next one is new; this is also why a
takeover goes forward. These need no types of the intents: the commands are safe whatever
the caller sends.

That nothing stale is applied needs `IntentsKept`: an open intent was overtaken exactly when what it rests on
is gone (`Tracked`), and a change back is impossible since owners and launches carry numbers that
are never given out again. `Onward` says that of each command: an owner or a launch that is there
was there before, or has a new number. So a command finds what the intent expects if
and only if it was there all the time.

**Updates.** An attempt that was handed off is in the journal, or has its receipt, or a later one has
(`Traced`); attempts are numbered as they are accepted, so that a later journal has a
higher number (`Numbered`). What makes it inductive is whose journal a process replaces: while an attempt is active the journal is its
own (`JournalFollows`), and the workflow works on the active attempt
(`WorkIsActive`), so that a transition never replaces a later attempt's journal; the journal is removed only when it has its receipt. A process that recovers has neither a workflow nor
an acceptance (`Calm`), nor has a manager in quarantine (`Quarantined`); with
`ReceivedIsOwn` (of the journals that a recovering process finds only its own has a receipt) this shows
that the journals of others are kept.

A failure leaves what runs installed for two reasons: what is rolled back is what runs (`Restorable`), and a workflow
that ends without a rollback has either prepared nothing or left behind an attempt that is known, as `Draining`, with its
backup. `FailureRestores` names that last case, `LeftInPlace`, and nothing else besides a rollback that itself failed.

A second invariant, `Kept`, is about the disk, the bundle and the helpers; it rests on the first. Its parts follow
the order in which things are written: what a check has staged at each of its steps
(`StagedWhole`); that the handoff is recorded before the helper is launched, and that the process that launched one
does nothing more but exit (`RecordedFirst`, `ParentExits`); that a bundle put aside belongs to an attempt
that was prepared once, and is the version that runs as long as nothing failed to be undone (`PutAsideOnce`,
`PreparedIsActive`, `Restorable`); what a start has settled when it goes on to look
for what may be installed (`Settled`), and put in order when it commits the receipt
(`Finalized`). Crashes may fall between any two of these.

**Only model-checked**: liveness, which rests on fairness and is out of reach of the prover
(`OperationsEnd`, `FenceResolves`, `ClosedIsReported`, `CallsReturn`, `RelaunchFollows`, and `WaitersGoOn` and
`EffectsGoOn`, which hold the fair half of the refinements to `ScopedLock`). A `TypeOK` that is neither checked by a run nor proved
documents the types of its module.

## 7. What is not modelled

The table of components in section 1 and the notes in `PROJECT.json` give a reason for each. In
short:

- *Next in the plan*: what launch, takeover and stop do under their locks; the protocol
  between the operation actor and the effect coordinator; the
  visibility replay; key transitions; epochs and fences of the macro runtime.
- *Of the updater*: corrupt journals, preferences and automatic checks, the stream of statuses, waiting
  duplicates (section 3); signatures, transport and archives, whose outcomes are given.
- *The shell beyond its two coordinators and the updater*: surfaces, hosts, overlays, dialogs, pages and build
  scripts are most of the repository's lines. They draw, translate and call Chromium or the
  operating system; the Core orders what they do by effects.
- *Given, not modelled*: native windows and surfaces, the emitter and the event channel, the
  renderer. They are the environment of the models: `OperationActor` meets any host that
  answers what it was sent, `EffectCoordinator` any Core that sends effects and
  cancellations, `PopupLifecycle` any windows, `RuntimeKernel` any sequence of intents.
- *Data*: SQLite, file formats, imports and exports, layout geometry, extensions, fonts, update
  signatures. Each is a sequential function of its input, for which the repository's unit tests
  are the better tool.
- *Inside modelled components*: poisoned locks; allocation failure; wrapping of 64-bit
  counters other than the tickets, which wrap in the models; the fields of kernel and
  ownership that no decision depends on (listed in section 3).
