---------------------------- MODULE UpdateInstall ----------------------------
(***************************************************************************)
(* rion-updater and electronChromiumUpdater.ts: a verified update is       *)
(* staged, accepted, prepared, handed off after a drain, and its outcome   *)
(* is settled when the program starts the next time.                       *)
(*                                                                         *)
(* What is on disk survives a crash: the installed version, the backups of *)
(* macOS, the install journal, the terminal receipts, the handoff record   *)
(* and the staging directory.  The manager, the workflow of the shell and  *)
(* the acceptances on their way to it do not.  A step is one durable write *)
(* or one critical section of the manager's mutex; a process may end       *)
(* between any two.  `faults' bounds the writes and native calls that fail.*)
(***************************************************************************)
EXTENDS Naturals

CONSTANTS
    Platforms,   \* the platforms to choose from
    MaxVersion,  \* bound: versions that are published, 1 is installed first
    MaxAttempts, \* bound: install attempts accepted
    MaxStarts,   \* bound: starts of the program
    MaxFaults,   \* bound: writes and native calls that fail
    MaxForeign   \* bound: interferences of another manager

ASSUME UpdateAssumption ==
    /\ Platforms \subseteq {"MacosAarch64", "WindowsX86_64"}
    /\ {MaxVersion, MaxAttempts, MaxStarts, MaxFaults, MaxForeign} \subseteq Nat

VARIABLES
    platform,
    installed,  \* disk: the version at the path of the program
    backups,    \* disk: the bundles that macOS has put aside, by attempt
    journal,    \* disk: the install journal, or NoAttempt
    receipts,   \* disk: the journals whose terminal receipt is committed
    handoff,    \* disk: the attempt of the relaunch handoff record, or 0
    staging,    \* disk: the version of the artifact, manifest and receipt
    boot,       \* the program: "Down", a stage of its start, or "Up"
    running,    \* the version that runs
    manager,    \* the state of the manager
    workflow,   \* #installWorkflow: where it is, and its attempt
    grants,     \* acceptances as leader on their way to the shell
    helpers,    \* relaunch helpers (macOS) and installers (Windows)
    issued,     \* attempts accepted so far
    budget,     \* what is left of the bounds
    launched,   \* history: the attempts handed to a helper or an installer
    spoiled,    \* history: the attempts whose replacement was not undone
    foreign     \* history: the attempts that another manager accepted

disk == <<installed, backups, journal, receipts, handoff, staging>>
history == <<launched, spoiled, foreign>>
vars == <<platform, disk, boot, running, manager, workflow, grants, helpers,
          issued, budget, history>>

Active == {"Accepted", "Preparing", "Installing", "Draining",
           "InstallerHandoff", "RestartPending"}
StartedDraining == {"Draining", "InstallerHandoff", "RestartPending",
                    "FailedAfterDrain"}
Failures == {"FailedBeforeDrain", "FailedAfterDrain"}

NoAttempt == [attempt |-> 0, target |-> 0, phase |-> "None"]
NothingStaged == [artifact |-> 0, manifest |-> 0, receipt |-> 0]
Idle == [at |-> "Idle", attempt |-> 0]
Fresh ==
    [attempt |-> NoAttempt, pending |-> 0, prepared |-> 0,
     blocked |-> FALSE, check |-> [at |-> "Idle", version |-> 0]]

Init ==
    /\ platform \in Platforms
    /\ installed = 1 /\ running = 1
    /\ backups = {} /\ receipts = {} /\ helpers = {} /\ grants = {}
    /\ journal = NoAttempt /\ handoff = 0 /\ staging = NothingStaged
    /\ boot = "Down" /\ manager = Fresh /\ workflow = Idle
    /\ issued = 0
    /\ budget = [starts |-> MaxStarts, faults |-> MaxFaults, foreign |-> MaxForeign]
    /\ launched = {} /\ spoiled = {} /\ foreign = {}

Macos == platform = "MacosAarch64"

Spend(what) ==
    /\ budget[what] > 0
    /\ budget' = [budget EXCEPT ![what] = @ - 1]

\* What an operation costs that succeeds, or fails.
Outcome(ok) == IF ok THEN UNCHANGED budget ELSE Spend("faults")

\* write_install_journal: replaced atomically; it may fail before the
\* replacement, or after it when the directory cannot be synced.
WriteJournal(record, ok) ==
    /\ Outcome(ok)
    /\ IF ok THEN journal' = record ELSE journal' \in {journal, record}

-----------------------------------------------------------------------------
(* The program starts: ChromiumUpdateManager::new, one durable step at a   *)
(* time.                                                                   *)

\* Mutant: a journal that has started draining is taken to be applied.
AppliedByPhase(record) == record.phase \in StartedDraining

\* The version that runs decides.
IsApplied(record) == record.target = installed

\* Mutant: a journal that has started draining is kept as it is.
InterruptedEarlyOnly(record) ==
    [record EXCEPT !.phase = IF @ \in StartedDraining THEN @ ELSE "FailedBeforeDrain"]

\* The failure that a start makes of a journal whose version did not advance.
Interrupted(record) ==
    [record EXCEPT !.phase = IF @ \in StartedDraining THEN "FailedAfterDrain"
                                                      ELSE "FailedBeforeDrain"]

\* reconcile_install_journal: the write of a failure may fail silently.
Boot ==
    /\ boot = "Down"
    /\ running' = installed
    /\ UNCHANGED <<platform, installed, backups, receipts, handoff, staging,
                   workflow, grants, issued, history>>
    /\ \/ /\ journal = NoAttempt
          /\ boot' = "Restore" /\ manager' = Fresh
          /\ Spend("starts") /\ UNCHANGED journal
       \/ /\ journal # NoAttempt /\ IsApplied(journal)
          /\ boot' = "Finalize"
          /\ manager' = [Fresh EXCEPT !.attempt = [journal EXCEPT !.phase = "Applied"]]
          /\ Spend("starts") /\ UNCHANGED journal
       \/ /\ journal # NoAttempt /\ ~IsApplied(journal)
          /\ boot' = "Restore"
          /\ manager' = [Fresh EXCEPT !.attempt = Interrupted(journal)]
          /\ budget.starts > 0
          /\ \/ /\ journal' = Interrupted(journal)
                /\ budget' = [budget EXCEPT !.starts = @ - 1]
             \/ /\ budget.faults > 0 /\ UNCHANGED journal
                /\ budget' = [budget EXCEPT !.starts = @ - 1, !.faults = @ - 1]

ParentLives(h) == boot # "Down" /\ h.parent = budget.starts

\* validate_relaunch_identity, after the journal's own check.
Endorsed(h) ==
    /\ journal.attempt = h.attempt
    /\ journal.phase = "RestartPending"
    /\ handoff = h.attempt

\* Anyone starts the program; or a relaunch helper whose parent has ended
\* does, and the program goes on when the records still name the helper.
Start ==
    /\ Boot
    /\ \/ UNCHANGED helpers
       \/ \E h \in helpers :
             /\ h.at = "Waiting" /\ Endorsed(h)
             /\ helpers' = helpers \ {h}

\* finalize_applied: a handoff record must be the attempt's; then it goes,
\* and the backup with it.  Windows has neither.
Finalize ==
    /\ boot = "Finalize"
    /\ UNCHANGED <<platform, installed, journal, receipts, staging, running,
                   manager, workflow, grants, helpers, issued, history>>
    /\ LET id == manager.attempt.attempt
           others == {b \in backups : b.attempt # id}
       IN \/ /\ handoff \in {0, id}
             /\ handoff' = 0 /\ backups' = others
             /\ boot' = "Clear" /\ UNCHANGED budget
          \/ /\ Macos /\ handoff \notin {0, id}
             /\ boot' = "Failed" /\ UNCHANGED <<backups, handoff, budget>>
          \/ /\ Macos /\ handoff \in {0, id} /\ Spend("faults")
             /\ \/ UNCHANGED <<handoff, backups>>
                \/ handoff' = 0 /\ backups' \in {backups, others}
             /\ boot' = "Failed"

\* Mutant: the journal goes with what was pending, before its receipt is there.
ClearPendingAndJournal ==
    /\ boot = "Clear"
    /\ boot' = "Commit"
    /\ staging' = NothingStaged
    /\ journal' = IF journal.attempt = manager.attempt.attempt THEN NoAttempt ELSE journal
    /\ UNCHANGED <<platform, installed, backups, receipts, handoff, running,
                   manager, workflow, grants, helpers, issued, budget, history>>

\* clear_pending_update, and the preferences after it.
ClearPending ==
    /\ boot = "Clear"
    /\ \E ok \in BOOLEAN :
          /\ Outcome(ok)
          /\ boot' = IF ok THEN "Commit" ELSE "Failed"
          /\ staging' \in IF ok THEN {NothingStaged} ELSE {staging, NothingStaged}
    /\ UNCHANGED <<platform, installed, backups, journal, receipts, handoff,
                   running, manager, workflow, grants, helpers, issued, history>>

\* The journal that is committed: it has started draining, and is the one
\* that was reconciled.
Committable(record) ==
    /\ record.phase \in StartedDraining
    /\ record.attempt = manager.attempt.attempt

\* commit_applied_install_journal up to the receipt.  Without a journal the
\* receipt of the attempt must be there already.
CommitReceipt ==
    /\ boot = "Commit"
    /\ UNCHANGED <<platform, installed, backups, journal, handoff, staging,
                   running, manager, workflow, grants, helpers, issued, history>>
    /\ \/ /\ journal # NoAttempt /\ Committable(journal)
          /\ receipts' = receipts \union {journal}
          /\ boot' = "Remove" /\ UNCHANGED budget
       \/ /\ journal = NoAttempt
          /\ \E r \in receipts : r.attempt = manager.attempt.attempt
          /\ boot' = "Restore" /\ UNCHANGED <<receipts, budget>>
       \/ /\ IF journal = NoAttempt
             THEN ~\E r \in receipts : r.attempt = manager.attempt.attempt
             ELSE ~Committable(journal)
          /\ boot' = "Conflict" /\ UNCHANGED <<receipts, budget>>
       \/ /\ Spend("faults")
          /\ receipts' \in IF Committable(journal)
                           THEN {receipts, receipts \union {journal}} ELSE {receipts}
          /\ boot' = "Failed"

\* Mutant: the source journal is removed when its receipt is not there yet.
RemovableUnchecked(record) == TRUE

\* cleanup_committed_install_journal: the journal is removed only when it is
\* the one whose receipt was committed.
Removable(record) == record \in receipts

RemoveJournal ==
    /\ boot = "Remove"
    /\ boot' = "Restore"
    /\ UNCHANGED <<platform, installed, backups, receipts, handoff, staging,
                   running, workflow, grants, helpers, issued, history>>
    /\ \/ /\ journal # NoAttempt /\ Removable(journal)
          /\ journal' = NoAttempt /\ UNCHANGED <<manager, budget>>
       \/ /\ journal # NoAttempt /\ ~Removable(journal)
          /\ manager' = [manager EXCEPT !.blocked = TRUE]
          /\ UNCHANGED <<journal, budget>>
       \/ /\ journal = NoAttempt /\ UNCHANGED <<journal, manager, budget>>
       \/ /\ Spend("faults") /\ UNCHANGED <<journal, manager>>

\* restore_pending_update: the manifest and the artifact must be those that
\* the receipt tells of, and newer than what runs.
Verified(s) ==
    /\ s.receipt > running
    /\ s.manifest = s.receipt
    /\ s.artifact = s.receipt

RestorePending ==
    /\ boot = "Restore"
    /\ boot' = "Up"
    /\ manager' = [manager EXCEPT !.pending =
                      IF ~manager.blocked /\ Verified(staging) THEN staging.receipt ELSE 0]
    /\ UNCHANGED <<platform, disk, running, workflow, grants, helpers, issued,
                   budget, history>>

\* What ends with a process.
Forgotten ==
    /\ boot' = "Down"
    /\ manager' = Fresh
    /\ workflow' = Idle
    /\ grants' = {}

\* The constructor has failed: the program cannot start.
StartFails ==
    /\ boot \in {"Failed", "Conflict"}
    /\ Forgotten
    /\ UNCHANGED <<platform, disk, running, helpers, issued, budget, history>>

\* A crash, or the user quits: at any point.
Crash ==
    /\ boot # "Down"
    /\ Forgotten
    /\ UNCHANGED <<platform, disk, running, helpers, issued, budget, history>>

\* Another manager of the same directory accepts an update, or does the same
\* recovery, while this one recovers.
ForeignAccepts ==
    /\ boot \in {"Clear", "Commit", "Remove"}
    /\ issued < MaxAttempts /\ running < MaxVersion
    /\ Spend("foreign")
    /\ issued' = issued + 1
    /\ journal' = [attempt |-> issued + 1, target |-> running + 1, phase |-> "Accepted"]
    /\ foreign' = foreign \union {issued + 1}
    /\ UNCHANGED <<platform, installed, backups, receipts, handoff, staging, boot,
                   running, manager, workflow, grants, helpers, launched, spoiled>>

ForeignRecovers ==
    /\ boot \in {"Clear", "Commit", "Remove"}
    /\ journal # NoAttempt /\ Committable(journal)
    /\ Spend("foreign")
    /\ receipts' = receipts \union {journal}
    /\ journal' = NoAttempt
    /\ staging' = NothingStaged
    /\ UNCHANGED <<platform, installed, backups, handoff, boot, running, manager,
                   workflow, grants, helpers, issued, history>>

-----------------------------------------------------------------------------
(* A check stages the artifact, then its manifest, then the receipt.       *)

Admitted == boot = "Up" /\ ~manager.blocked

unchangedByCheck == <<platform, installed, backups, journal, receipts, handoff,
                      boot, running, workflow, grants, helpers, issued, history>>

\* Mutant: a check may begin while an update is pending.
CheckStartsAgain(version) ==
    /\ Admitted
    /\ manager.check.at = "Idle"
    /\ version > running
    /\ manager' = [manager EXCEPT !.check = [at |-> "artifact", version |-> version]]
    /\ UNCHANGED <<unchangedByCheck, staging, budget>>

\* check_for_updates: nothing is pending, and the newest release is `version'.
CheckStarts(version) ==
    /\ Admitted
    /\ manager.pending = 0 /\ manager.check.at = "Idle"
    /\ version > running
    /\ manager' = [manager EXCEPT !.check = [at |-> "artifact", version |-> version]]
    /\ UNCHANGED <<unchangedByCheck, staging, budget>>

CheckSteps == {"artifact", "manifest", "receipt"}

AfterStep(step) ==
    CASE step = "artifact" -> "manifest"
      [] step = "manifest" -> "receipt"
      [] step = "receipt" -> "End"

\* run_check: one durable write after another.
CheckWrites ==
    /\ boot = "Up" /\ manager.check.at \in CheckSteps
    /\ staging' = [staging EXCEPT ![manager.check.at] = manager.check.version]
    /\ manager' = [manager EXCEPT !.check.at = AfterStep(@)]
    /\ UNCHANGED <<unchangedByCheck, budget>>

\* The update is pending once all of it is staged.
CheckEnds ==
    /\ boot = "Up" /\ manager.check.at = "End"
    /\ manager' = [manager EXCEPT !.pending = manager.check.version,
                                  !.check = Fresh.check]
    /\ UNCHANGED <<unchangedByCheck, staging, budget>>

\* A download, a verification or a write fails, the write before or after it has
\* replaced the file; what is written stays.
CheckFails ==
    /\ boot = "Up" /\ manager.check.at \in CheckSteps
    /\ Spend("faults")
    /\ staging' \in {staging, [staging EXCEPT ![manager.check.at] = manager.check.version]}
    /\ manager' = [manager EXCEPT !.check = Fresh.check]
    /\ UNCHANGED unchangedByCheck

-----------------------------------------------------------------------------
(* An install is accepted, and its acceptance reaches the shell.           *)

\* Mutant: an attempt that waits for the restart is no longer active.
IsActiveBeforeHandoff(record) == record.phase \in Active \ {"RestartPending"}

IsActive(record) == record.phase \in Active

\* accept_install, as the leader.  The others get the active attempt and
\* change nothing.
AcceptInstall ==
    /\ Admitted
    /\ issued < MaxAttempts
    /\ ~IsActive(manager.attempt) /\ manager.pending # 0
    /\ \E ok \in BOOLEAN :
          LET record == [attempt |-> issued + 1, target |-> manager.pending,
                         phase |-> "Accepted"]
          IN /\ WriteJournal(record, ok)
             /\ issued' = issued + 1
             /\ manager' = IF ok THEN [manager EXCEPT !.attempt = record] ELSE manager
             /\ grants' = IF ok THEN grants \union {record.attempt} ELSE grants
    /\ UNCHANGED <<platform, installed, backups, receipts, handoff, staging, boot,
                   running, workflow, helpers, history>>

\* installDownloadedUpdate: the leader's acceptance starts the workflow,
\* unless one is there.
DeliverAcceptance ==
    /\ \E id \in grants :
          /\ grants' = grants \ {id}
          /\ workflow' = IF workflow = Idle THEN [at |-> "Prepare", attempt |-> id]
                                            ELSE workflow
    /\ UNCHANGED <<platform, disk, boot, running, manager, helpers, issued, budget,
                   history>>

-----------------------------------------------------------------------------
(* #runInstall, one call of the manager or of the installer after another. *)

unchangedByWork == <<platform, receipts, staging, boot, running, grants, issued>>

At(stage) == boot = "Up" /\ workflow.at = stage
GoTo(stage) == workflow' = [workflow EXCEPT !.at = stage]

InPhase(phase) == [manager.attempt EXCEPT !.phase = phase]

\* transition_install_locked: the attempt changes in memory before its
\* journal is written.
Transition(phase, next, otherwise) ==
    /\ manager.attempt.attempt = workflow.attempt
    /\ manager' = [manager EXCEPT !.attempt = InPhase(phase)]
    /\ \E ok \in BOOLEAN :
          /\ WriteJournal(InPhase(phase), ok)
          /\ GoTo(IF ok THEN next ELSE otherwise)
    /\ UNCHANGED <<unchangedByWork, installed, backups, handoff, helpers, history>>

\* prepare_install up to the installer, and its success.
PrepareBegins ==
    /\ At("Prepare")
    /\ manager.attempt.phase = "Accepted"
    /\ manager.pending = manager.attempt.target
    /\ Transition("Preparing", "Install", "Rejected")

\* Mutant: what was prepared stays when its journal cannot be written.
PrepareSucceedsOrFails ==
    At("Finish") /\ Transition("Installing", "Begin", "FailPrepare")

PrepareSucceeds == At("Finish") /\ Transition("Installing", "Begin", "Undo")

\* begin_install_drain: when the journal cannot be written the failure is reported,
\* and nothing is undone; the attempt stays Draining in memory, and active.
DrainBegins ==
    /\ At("Begin")
    /\ manager.attempt.phase = "Installing"
    /\ Transition("Draining", "Drain", "Rejected")

\* handoff_install_after_drain up to the installer.
HandoffPhase == IF Macos THEN "RestartPending" ELSE "InstallerHandoff"

HandoffBegins ==
    /\ At("Handoff")
    /\ manager.attempt.phase = "Draining"
    /\ Transition(HandoffPhase, IF Macos THEN "Record" ELSE "Launch", "Terminate")

\* The installer's prepare: macOS replaces the bundle and puts the old one
\* aside, Windows only remembers what to run.  The swap, the rename to the backup
\* and the sync are one step: a process that ends in between leaves the old bundle
\* in the staging directory of the attempt, and the next start finalizes it as it
\* does the backup.
InstallerPrepares ==
    /\ At("Install")
    /\ manager' = [manager EXCEPT !.prepared = workflow.attempt]
    /\ IF Macos
       THEN /\ installed' = manager.attempt.target
            /\ backups' = backups \union
                  {[attempt |-> workflow.attempt, version |-> installed]}
       ELSE UNCHANGED <<installed, backups>>
    /\ GoTo("Finish")
    /\ UNCHANGED <<unchangedByWork, journal, handoff, helpers, budget, history>>

\* It fails: nothing is replaced, or it is put back, or that fails as well.
InstallerFails ==
    /\ At("Install")
    /\ \/ Spend("faults") /\ UNCHANGED <<installed, backups, spoiled>>
       \/ /\ Macos /\ budget.faults > 1
          /\ budget' = [budget EXCEPT !.faults = @ - 2]
          /\ installed' = manager.attempt.target
          /\ backups' \in {backups, backups \union
                {[attempt |-> workflow.attempt, version |-> installed]}}
          /\ spoiled' = spoiled \union {workflow.attempt}
    /\ GoTo("Undo")
    /\ UNCHANGED <<unchangedByWork, journal, handoff, manager, helpers, launched,
                   foreign>>

\* drainShellAndCore.
DrainEnds ==
    /\ At("Drain")
    /\ \E ok \in BOOLEAN :
          Outcome(ok) /\ GoTo(IF ok THEN "Handoff" ELSE "UndoDrain")
    /\ UNCHANGED <<unchangedByWork, installed, backups, journal, handoff, manager,
                   helpers, history>>

\* The installer's handoff: macOS writes the record of the relaunch first.
HandoffRecorded ==
    /\ At("Record")
    /\ \E ok \in BOOLEAN :
          /\ Outcome(ok)
          /\ handoff' \in IF ok THEN {workflow.attempt} ELSE {handoff, workflow.attempt}
          /\ GoTo(IF ok THEN "Launch" ELSE "UndoHandoff")
    /\ UNCHANGED <<unchangedByWork, installed, backups, journal, manager, helpers,
                   history>>

\* A helper knows its parent by its process: by the start it belongs to.
Helper(id) == [attempt |-> id, target |-> manager.attempt.target,
               parent |-> budget.starts, at |-> "New"]

HelperLaunched ==
    /\ At("Launch")
    /\ helpers' = helpers \union {Helper(workflow.attempt)}
    /\ launched' = launched \union {workflow.attempt}
    /\ GoTo("Exit")
    /\ UNCHANGED <<unchangedByWork, installed, backups, journal, handoff, manager,
                   budget, spoiled, foreign>>

\* The record goes when the launch fails; that may fail unnoticed.
LaunchFails ==
    /\ At("Launch")
    /\ Spend("faults")
    /\ handoff' \in IF Macos THEN {0, handoff} ELSE {handoff}
    /\ GoTo("UndoHandoff")
    /\ UNCHANGED <<unchangedByWork, installed, backups, journal, manager, helpers,
                   history>>

Undone == [Undo |-> "FailPrepare", UndoDrain |-> "FailDrain",
           UndoHandoff |-> "FailHandoff"]

\* The installer's rollback.  What was prepared is taken; the bundles are
\* swapped back, unless that fails, and what is put aside is removed, unless
\* that fails.
Rollback ==
    /\ boot = "Up" /\ workflow.at \in DOMAIN Undone
    /\ manager' = [manager EXCEPT !.prepared = 0]
    /\ IF Macos /\ manager.prepared = workflow.attempt
       THEN \/ /\ \E b \in backups :
                     /\ b.attempt = workflow.attempt
                     /\ installed' = b.version
                     /\ backups' = backups \ {b}
               /\ UNCHANGED <<spoiled, budget>>
            \/ /\ Spend("faults")
               /\ \E b \in backups :
                     /\ b.attempt = workflow.attempt
                     /\ installed' = b.version
                     /\ backups' = (backups \ {b}) \union {[b EXCEPT !.version = installed]}
               /\ UNCHANGED spoiled
            \/ /\ Spend("faults")
               /\ spoiled' = spoiled \union {workflow.attempt}
               /\ UNCHANGED <<installed, backups>>
       ELSE UNCHANGED <<installed, backups, spoiled, budget>>
    /\ GoTo(Undone[workflow.at])
    /\ UNCHANGED <<unchangedByWork, journal, handoff, helpers, launched, foreign>>

\* finish_prepare_failure, fail_install_after_drain, finish_handoff_failure:
\* the shell goes on after the first and restarts after the others.
AttemptFails ==
    \/ At("FailPrepare") /\ Transition("FailedBeforeDrain", "Rejected", "Rejected")
    \/ At("FailDrain") /\ Transition("FailedAfterDrain", "Terminate", "Terminate")
    \/ At("FailHandoff") /\ Transition("FailedAfterDrain", "Terminate", "Terminate")

\* The workflow has reported its failure, and another may start.
WorkflowEnds ==
    /\ At("Rejected")
    /\ workflow' = Idle
    /\ UNCHANGED <<platform, disk, boot, running, manager, grants, helpers, issued,
                   budget, history>>

\* Mutant: the handoff does not end the process.
ExitAfterFailureOnly ==
    /\ boot = "Up" /\ workflow.at = "Terminate"
    /\ Forgotten
    /\ UNCHANGED <<platform, disk, running, helpers, issued, budget, history>>

\* exitAfterHandoff, or the end of a process that could not drain.
Exit ==
    /\ boot = "Up" /\ workflow.at \in {"Exit", "Terminate"}
    /\ Forgotten
    /\ UNCHANGED <<platform, disk, running, helpers, issued, budget, history>>

-----------------------------------------------------------------------------
(* The helpers of macOS, and the installers of Windows.                    *)

unchangedByHelper == <<platform, backups, journal, receipts, handoff, staging,
                       workflow, grants, issued, history>>

\* run_relaunch_helper: the records are read, then the parent is waited for.
HelperValidates(h) ==
    /\ Macos /\ h.at = "New"
    /\ helpers' = (helpers \ {h}) \union
          {[h EXCEPT !.at = IF Endorsed(h) THEN "Waiting" ELSE "Refused"]}
    /\ UNCHANGED <<unchangedByHelper, installed, boot, running, manager, budget>>

\* The parent has ended, and there is nothing to start: the program is up,
\* or the records do not name the helper any more.
HelperEnds(h) ==
    /\ h.at = "Waiting" /\ ~ParentLives(h)
    /\ boot # "Down" \/ ~Endorsed(h)
    /\ helpers' = helpers \ {h}
    /\ UNCHANGED <<unchangedByHelper, installed, boot, running, manager, budget>>

\* The program cannot be started.
HelperFails(h) ==
    /\ h.at = "Waiting" /\ ~ParentLives(h)
    /\ Spend("faults")
    /\ helpers' = (helpers \ {h}) \union {[h EXCEPT !.at = "Failed"]}
    /\ UNCHANGED <<unchangedByHelper, installed, boot, running, manager>>

\* An installer replaces a program that does not run, or fails.
InstallerRuns(h) ==
    /\ ~Macos /\ boot = "Down"
    /\ helpers' = helpers \ {h}
    /\ \/ installed' = h.target /\ UNCHANGED budget
       \/ Spend("faults") /\ UNCHANGED installed
    /\ UNCHANGED <<unchangedByHelper, boot, running, manager>>

-----------------------------------------------------------------------------

HelperStep ==
    \E h \in helpers :
        HelperValidates(h) \/ HelperEnds(h) \/ HelperFails(h) \/ InstallerRuns(h)

Next ==
    \/ Start \/ Finalize \/ ClearPending \/ CommitReceipt \/ RemoveJournal
    \/ RestorePending \/ StartFails \/ Crash \/ ForeignAccepts \/ ForeignRecovers
    \/ \E v \in 1..MaxVersion : CheckStarts(v)
    \/ CheckWrites \/ CheckEnds \/ CheckFails
    \/ AcceptInstall \/ DeliverAcceptance
    \/ PrepareBegins \/ InstallerPrepares \/ InstallerFails \/ PrepareSucceeds
    \/ DrainBegins \/ DrainEnds \/ HandoffBegins \/ HandoffRecorded
    \/ HelperLaunched \/ LaunchFails \/ Rollback \/ AttemptFails \/ WorkflowEnds
    \/ Exit
    \/ HelperStep

Spec == Init /\ [][Next]_vars

\* The process ends that means to, and helpers run: the operating system's
\* scheduling.  A start and a crash are anyone's.
Relaunch == Start /\ helpers' # helpers

FairSpec ==
    Spec /\ WF_vars(Exit) /\ WF_vars(HelperStep) /\ WF_vars(Relaunch)

-----------------------------------------------------------------------------
(* Properties.                                                             *)

TypeOK ==
    /\ platform \in Platforms
    /\ {installed, running} \subseteq 1..MaxVersion
    /\ journal.phase \in Active \union Failures \union {"None"}
    /\ {handoff, journal.attempt, manager.attempt.attempt, manager.prepared}
          \subseteq 0..MaxAttempts
    /\ \A r \in receipts : r.phase \in StartedDraining
    /\ \A step \in CheckSteps : staging[step] \in 0..MaxVersion
    /\ boot \in {"Down", "Finalize", "Clear", "Commit", "Remove", "Restore",
                 "Failed", "Conflict", "Up"}
    /\ grants \subseteq 1..MaxAttempts

Superseded(id) ==
    \/ journal.attempt > id
    \/ manager.attempt.attempt > id
    \/ \E r \in receipts : r.attempt > id

Received(id) == \E r \in receipts : r.attempt = id

\* "A crash may replay the journal, but it must never lose both the journal
\* and its terminal commit marker": an attempt that was handed off has its
\* receipt or is in the journal, whatever crashed, until a later one is.
NothingIsForgotten ==
    \A id \in launched :
        \/ Received(id)
        \/ journal.attempt = id
        \/ Superseded(id)

\* Once the program is up again, each attempt that was handed off is settled:
\* its receipt is there, or the manager tells that it failed.
EveryStartSettles ==
    boot = "Up" =>
        \A id \in launched :
            \/ workflow.attempt = id
            \/ Received(id)
            \/ manager.attempt.attempt = id /\ manager.attempt.phase \in Failures
            \/ Superseded(id)

\* A terminal receipt is committed for the version that runs, from a journal
\* that has started draining, and when nothing of the attempt is left to
\* finalize: no handoff record, no backup, nothing staged.
AppliedIsFinal ==
    [][\A r \in receipts' \ receipts :
           /\ r.target = installed
           /\ r.attempt # handoff
           /\ \A b \in backups : b.attempt # r.attempt
           /\ staging' = NothingStaged]_vars

\* begin_install_drain could not journal the drain (manager/install.rs:148): what is
\* prepared stays in place.  It is known still, and its backup could restore what runs.
LeftInPlace ==
    /\ manager.attempt.phase = "Draining"
    /\ manager.prepared = manager.attempt.attempt
    /\ [attempt |-> manager.attempt.attempt, version |-> running] \in backups

\* When an attempt is told to have failed, or its workflow has reported an error or
\* is over, the program that runs is the one that is installed, unless a rollback
\* itself has failed.  The one exception is a drain that could not be journalled:
\* of it, too, src/docs/updater-transaction-contract.md:161 says "Any observed
\* pre-drain failure swaps the backup back atomically", and the code does not.
\* (A process that goes on to Terminate restarts with what is installed.)
FailureRestores ==
    boot = "Up" /\ (manager.attempt.phase \in Failures \/ workflow.at \in {"Idle", "Rejected"})
        => installed = running \/ spoiled # {} \/ LeftInPlace

\* A helper that is launched finds its records as long as its parent lives:
\* they are written first, and no other attempt is accepted meanwhile.
HelpersAreEndorsed ==
    Macos => \A h \in helpers : ParentLives(h) => Endorsed(h)

\* What may be installed is staged whole: the artifact and the manifest of
\* the receipt, newer than the version that runs.
InstallableIsStaged ==
    boot = "Up" /\ manager.pending # 0 =>
        /\ manager.pending > running
        /\ \A step \in CheckSteps : staging[step] = manager.pending

Recovering == boot \notin {"Down", "Up"}

\* "A different journal at the canonical path is never deleted or
\* overwritten" by the manager that found it, while it recovers and in its
\* quarantine: only another manager's acceptance replaces it.
OthersAreKept ==
    [][(Recovering \/ manager.blocked) /\ foreign' = foreign
          /\ journal.attempt \in foreign \ {manager.attempt.attempt}
       => journal' = journal]_vars

\* On macOS, a handoff that has ended the program starts it again, unless the
\* helper could not: no start of the user is needed.
RelaunchFollows ==
    \A s \in 1..MaxStarts :
        (Macos /\ workflow.at = "Exit" /\ budget.starts = s)
            ~> (budget.starts < s \/ \E h \in helpers : h.at = "Failed")

\* "An interrupted pre-drain transaction becomes UPDATE_INSTALL_INTERRUPTED":
\* a start never turns down the journal that this program has left.
InterruptedIsReported ==
    boot = "Conflict" => journal.attempt \in foreign

=============================================================================
