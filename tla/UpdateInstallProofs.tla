------------------------- MODULE UpdateInstallProofs -------------------------
(***************************************************************************)
(* What the journal and the receipts of UpdateInstall promise, for any     *)
(* number of versions, attempts, starts, failures and interferences.       *)
(*                                                                         *)
(* `Traced' is the heart: an attempt that was launched, or that the        *)
(* manager tells of, is outlived by a journal or a receipt that is not     *)
(* older than it.  It needs that attempts are numbered upwards             *)
(* (`Numbered'), that while the manager works on an attempt the journal is *)
(* that attempt's (`JournalFollows'), and that the calls of the workflow   *)
(* find their attempt active (`WorkIsActive').                             *)
(*                                                                         *)
(* `Kept', a second invariant on top of it, is about what is staged,       *)
(* installed, put aside and recorded at each step of a check, an attempt   *)
(* and a start: what the next step, or the next start, relies on.          *)
(***************************************************************************)
EXTENDS UpdateInstall, TLAPS

IsRecord(r) == DOMAIN r = {"attempt", "target", "phase"} /\ r.attempt \in Nat

IsManager(m) ==
    /\ DOMAIN m = {"attempt", "pending", "prepared", "blocked", "check"}
    /\ IsRecord(m.attempt)
    /\ m.blocked \in BOOLEAN

Typed ==
    /\ IsRecord(journal) /\ IsManager(manager)
    /\ DOMAIN workflow = {"at", "attempt"}
    /\ issued \in Nat /\ launched \subseteq Nat /\ foreign \subseteq Nat
    /\ \A r \in receipts : r.attempt \in Nat

Numbered ==
    /\ journal.attempt <= issued
    /\ manager.attempt.attempt <= issued
    /\ \A id \in launched \union foreign : id <= issued
    /\ \A r \in receipts : r.attempt <= issued

\* A process that is not up works on nothing; one that is down knows nothing.
Calm ==
    /\ boot # "Up" => workflow = Idle /\ grants = {} /\ ~IsActive(manager.attempt)
    /\ boot = "Down" => manager = Fresh

JournalFollows ==
    boot = "Up" /\ IsActive(manager.attempt) =>
        journal.attempt = manager.attempt.attempt

Busy == {"Install", "Finish", "Begin", "Drain", "Handoff", "Record", "Launch",
         "Undo", "UndoDrain", "UndoHandoff", "FailPrepare", "FailDrain",
         "FailHandoff"}

WorkIsActive ==
    workflow.at \in Busy =>
        IsActive(manager.attempt) /\ manager.attempt.attempt = workflow.attempt

Outlived(id) == journal.attempt >= id \/ \E r \in receipts : r.attempt >= id

Traced == \A id \in launched \union {manager.attempt.attempt} : Outlived(id)

\* A quarantined manager works on nothing.
Quarantined == manager.blocked => workflow = Idle /\ grants = {}

\* While a process recovers, a journal with a receipt is its own.
ReceivedIsOwn ==
    boot \in {"Finalize", "Clear", "Commit", "Remove"} =>
        \/ journal = NoAttempt
        \/ journal.attempt = manager.attempt.attempt
        \/ journal \notin receipts

Inv ==
    /\ Typed /\ Numbered /\ Calm /\ JournalFollows /\ WorkIsActive /\ Traced
    /\ Quarantined /\ ReceivedIsOwn

-----------------------------------------------------------------------------

LEMMA InitInv == Init => Inv
  BY DEF Init, Inv, Typed, Numbered, Calm, JournalFollows, WorkIsActive, Traced,
         Quarantined, ReceivedIsOwn, IsRecord, IsManager, Idle, Fresh, NoAttempt,
         Busy, Outlived, IsActive, Active

\* A record in another phase is a record of the same attempt.
LEMMA InAnotherPhase ==
    ASSUME NEW r, IsRecord(r), NEW phase
    PROVE  /\ IsRecord([r EXCEPT !.phase = phase])
           /\ [r EXCEPT !.phase = phase].attempt = r.attempt
           /\ [r EXCEPT !.phase = phase].phase = phase
  BY DEF IsRecord

\* So is the failure that a start makes of it, which is not active.
LEMMA InterruptedRecord ==
    ASSUME NEW r, IsRecord(r)
    PROVE  /\ IsRecord(Interrupted(r))
           /\ Interrupted(r).attempt = r.attempt
           /\ ~IsActive(Interrupted(r))
  <1>1. Interrupted(r) = [r EXCEPT !.phase = Interrupted(r).phase]
        /\ Interrupted(r).phase \in Failures
    BY DEF Interrupted, IsRecord, Failures
  <1> QED
    BY <1>1, InAnotherPhase DEF IsActive, Active, Failures

\* A manager that has just started with a record.
LEMMA FreshWith ==
    ASSUME NEW r, IsRecord(r)
    PROVE  /\ IsManager([Fresh EXCEPT !.attempt = r])
           /\ [Fresh EXCEPT !.attempt = r].attempt = r
           /\ [Fresh EXCEPT !.attempt = r].blocked = FALSE
  BY DEF Fresh, IsManager

LEMMA FreshManager ==
    IsManager(Fresh) /\ Fresh.attempt = NoAttempt /\ Fresh.blocked = FALSE
       /\ NoAttempt.attempt = 0 /\ ~IsActive(NoAttempt) /\ IsRecord(NoAttempt)
  BY DEF Fresh, NoAttempt, IsManager, IsRecord, IsActive, Active

\* A start reads the journal; if it writes, it writes of the same attempt.
LEMMA StartInv == Inv /\ Start => Inv'
  <1> SUFFICES ASSUME Inv, Boot PROVE Inv'
    BY DEF Start
  <1>1. /\ boot = "Down" /\ boot' \in {"Finalize", "Restore"}
        /\ UNCHANGED <<receipts, workflow, grants, issued, launched, foreign>>
        /\ workflow = Idle /\ grants = {}
        /\ DOMAIN workflow' = {"at", "attempt"} /\ workflow'.at = "Idle"
    BY DEF Boot, Inv, Calm, Idle, history
  <1>2. /\ IsRecord(journal') /\ IsManager(manager')
        /\ journal'.attempt = journal.attempt
        /\ manager'.attempt.attempt \in {0, journal.attempt}
        /\ boot' = "Finalize" => manager'.attempt.attempt = journal'.attempt
        /\ ~IsActive(manager'.attempt)
        /\ manager'.blocked = FALSE
    <2>1. IsRecord(journal)
      BY DEF Inv, Typed
    <2>2. CASE journal = NoAttempt /\ boot' = "Restore" /\ manager' = Fresh
                 /\ UNCHANGED journal
      BY <2>1, <2>2, FreshManager
    <2>3. CASE boot' = "Finalize" /\ UNCHANGED journal
                 /\ manager' = [Fresh EXCEPT !.attempt = [journal EXCEPT !.phase = "Applied"]]
      <3> DEFINE applied == [journal EXCEPT !.phase = "Applied"]
      <3>1. IsRecord(applied) /\ applied.attempt = journal.attempt /\ ~IsActive(applied)
        BY <2>1, InAnotherPhase DEF IsActive, Active
      <3> HIDE DEF applied
      <3>2. manager' = [Fresh EXCEPT !.attempt = applied]
        BY <2>3 DEF applied
      <3> QED
        BY <2>1, <2>3, <3>1, <3>2, FreshWith
    <2>4. CASE boot' = "Restore" /\ journal' \in {journal, Interrupted(journal)}
                 /\ manager' = [Fresh EXCEPT !.attempt = Interrupted(journal)]
      <3> DEFINE failed == Interrupted(journal)
      <3>1. IsRecord(failed) /\ failed.attempt = journal.attempt /\ ~IsActive(failed)
        BY <2>1, InterruptedRecord
      <3> HIDE DEF failed
      <3>2. /\ IsManager([Fresh EXCEPT !.attempt = failed])
            /\ [Fresh EXCEPT !.attempt = failed].attempt = failed
            /\ [Fresh EXCEPT !.attempt = failed].blocked = FALSE
        BY <3>1, FreshWith
      <3>3. manager' = [Fresh EXCEPT !.attempt = failed] /\ journal' \in {journal, failed}
            /\ boot' = "Restore"
        BY <2>4 DEF failed
      <3> QED
        BY <2>1, <3>1, <3>2, <3>3
    <2>5. \/ journal = NoAttempt /\ boot' = "Restore" /\ manager' = Fresh
             /\ UNCHANGED journal
          \/ boot' = "Finalize" /\ UNCHANGED journal
             /\ manager' = [Fresh EXCEPT !.attempt = [journal EXCEPT !.phase = "Applied"]]
          \/ boot' = "Restore" /\ journal' \in {journal, Interrupted(journal)}
             /\ manager' = [Fresh EXCEPT !.attempt = Interrupted(journal)]
      BY Zenon DEF Boot
    <2> QED
      BY <2>2, <2>3, <2>4, <2>5
  <1>3. Typed'
    BY <1>1, <1>2 DEF Inv, Typed
  <1>7. Numbered'
    BY <1>1, <1>2 DEF Inv, Typed, Numbered, IsRecord
  <1>4. Calm' /\ JournalFollows' /\ WorkIsActive' /\ Quarantined'
    BY <1>1, <1>2 DEF Calm, JournalFollows, WorkIsActive, Quarantined, Busy, Idle
  <1>5. Traced'
    <2>1. journal.attempt \in Nat /\ journal'.attempt = journal.attempt
          /\ \A id \in launched : Outlived(id)
      BY <1>2 DEF Inv, Typed, IsRecord, Traced
    <2>2. \A id \in launched : Outlived(id)'
      BY <1>1, <2>1 DEF Outlived
    <2>3. Outlived(manager.attempt.attempt)'
      BY <1>2, <2>1 DEF Outlived
    <2> QED
      BY <1>1, <2>2, <2>3 DEF Traced
  <1>6. ReceivedIsOwn'
    BY <1>1, <1>2 DEF ReceivedIsOwn
  <1> QED
    BY <1>3, <1>4, <1>5, <1>6, <1>7 DEF Inv

\* Steps of the recovery: the journal goes only when it has its receipt.
LEMMA RecoveryInv ==
    Inv /\ (Finalize \/ ClearPending \/ CommitReceipt \/ RemoveJournal \/ RestorePending)
       => Inv'
  <1> SUFFICES ASSUME Inv, Finalize \/ ClearPending \/ CommitReceipt \/ RemoveJournal
                              \/ RestorePending
               PROVE Inv'
    OBVIOUS
  <1> USE DEF history, disk
  <1>1. /\ boot \notin {"Up", "Down"} /\ boot' # "Down"
        /\ UNCHANGED <<workflow, grants, issued, launched, foreign>>
        /\ workflow = Idle /\ grants = {} /\ ~IsActive(manager.attempt)
    BY DEF Finalize, ClearPending, CommitReceipt, RemoveJournal, RestorePending, Inv, Calm
  <1>2. IsManager(manager') /\ manager'.attempt = manager.attempt
    BY DEF Finalize, ClearPending, CommitReceipt, RemoveJournal, RestorePending, Inv,
           Typed, IsManager
  <1>3. /\ receipts \subseteq receipts' /\ receipts' \subseteq receipts \union {journal}
        /\ \/ journal' = journal
           \/ journal' = NoAttempt /\ journal \in receipts
    BY DEF Finalize, ClearPending, CommitReceipt, RemoveJournal, RestorePending, Removable
  <1>4. Typed' /\ Numbered'
    BY <1>1, <1>2, <1>3 DEF Inv, Typed, Numbered, IsRecord, NoAttempt
  <1>5. Calm' /\ JournalFollows' /\ WorkIsActive' /\ Quarantined'
    BY <1>1, <1>2 DEF Calm, JournalFollows, WorkIsActive, Quarantined, Busy, Idle
  <1>6. Traced'
    BY <1>1, <1>2, <1>3 DEF Inv, Typed, Traced, Outlived, IsRecord, IsManager
  <1>7. ReceivedIsOwn'
    <2>1. CASE CommitReceipt
      <3>1. journal' = journal /\ manager' = manager
            /\ (receipts' = receipts \/ journal.attempt = manager.attempt.attempt)
            /\ boot = "Commit"
        BY <2>1 DEF CommitReceipt, Committable
      <3> QED
        BY <3>1 DEF Inv, ReceivedIsOwn
    <2>2. CASE ~CommitReceipt
      <3>1. /\ receipts' = receipts
            /\ journal' \in {journal, NoAttempt}
            /\ boot' \in {"Finalize", "Clear", "Commit", "Remove"} =>
                  boot \in {"Finalize", "Clear", "Commit", "Remove"}
        BY <2>2 DEF Finalize, ClearPending, RemoveJournal, RestorePending
      <3> QED
        BY <3>1, <1>2 DEF Inv, ReceivedIsOwn
    <2> QED
      BY <2>1, <2>2
  <1> QED
    BY <1>4, <1>5, <1>6, <1>7 DEF Inv

\* A process ends: what it knew goes, what is on disk stays.
LEMMA EndInv == Inv /\ (StartFails \/ Crash \/ Exit) => Inv'
  <1> SUFFICES ASSUME Inv, StartFails \/ Crash \/ Exit PROVE Inv'
    OBVIOUS
  <1>1. /\ boot' = "Down" /\ manager' = Fresh /\ workflow' = Idle /\ grants' = {}
        /\ UNCHANGED <<journal, receipts, issued, launched, foreign>>
    BY DEF StartFails, Crash, Exit, Forgotten, disk, history
  <1>2. DOMAIN workflow' = {"at", "attempt"} /\ workflow'.at = "Idle"
    BY <1>1 DEF Idle
  <1>3. /\ IsManager(manager') /\ manager'.attempt.attempt = 0
        /\ manager'.blocked = FALSE /\ ~IsActive(manager'.attempt)
    BY <1>1, FreshManager
  <1>4. Typed' /\ Numbered'
    BY <1>1, <1>2, <1>3 DEF Inv, Typed, Numbered
  <1>5. Calm' /\ JournalFollows' /\ WorkIsActive' /\ Quarantined' /\ ReceivedIsOwn'
    BY <1>1, <1>2, <1>3 DEF Calm, JournalFollows, WorkIsActive, Quarantined, Busy,
                            ReceivedIsOwn
  <1>6. Traced'
    BY <1>1, <1>3 DEF Inv, Typed, Traced, Outlived, IsRecord
  <1> QED
    BY <1>4, <1>5, <1>6 DEF Inv

\* Another manager accepts, with a later attempt, or commits the same receipt.
LEMMA ForeignInv == Inv /\ (ForeignAccepts \/ ForeignRecovers) => Inv'
  <1> SUFFICES ASSUME Inv, ForeignAccepts \/ ForeignRecovers PROVE Inv'
    OBVIOUS
  <1>1. /\ boot \in {"Clear", "Commit", "Remove"}
        /\ UNCHANGED <<boot, manager, workflow, grants, launched>>
    BY DEF ForeignAccepts, ForeignRecovers, history
  <1>2. Calm' /\ JournalFollows' /\ WorkIsActive' /\ Quarantined'
    BY <1>1 DEF Inv, Calm, JournalFollows, WorkIsActive, Quarantined
  <1>3. CASE ForeignAccepts
    <2>1. /\ receipts' = receipts /\ issued' = issued + 1
          /\ foreign' = foreign \union {issued + 1}
          /\ IsRecord(journal') /\ journal'.attempt = issued + 1
      BY <1>3 DEF ForeignAccepts, Inv, Typed, IsRecord
    <2>4. Typed'
      BY <1>1, <2>1 DEF Inv, Typed
    <2>5. Numbered'
      BY <1>1, <2>1 DEF Inv, Typed, Numbered, IsRecord, IsManager
    <2>6. Traced'
      BY <1>1, <2>1 DEF Inv, Typed, Numbered, Traced, Outlived, IsRecord, IsManager
    <2>2. Typed' /\ Numbered' /\ Traced'
      BY <2>4, <2>5, <2>6
    <2>3. ReceivedIsOwn'
      BY <2>1 DEF Inv, Typed, Numbered, ReceivedIsOwn
    <2> QED
      BY <1>2, <2>2, <2>3 DEF Inv
  <1>4. CASE ForeignRecovers
    <2>1. /\ receipts' = receipts \union {journal} /\ journal' = NoAttempt
          /\ UNCHANGED <<issued, foreign>>
      BY <1>4 DEF ForeignRecovers, history
    <2>2. /\ journal.attempt \in Nat /\ journal.attempt <= issued /\ issued \in Nat
          /\ IsRecord(journal') /\ journal'.attempt = 0
      BY <2>1 DEF Inv, Typed, Numbered, IsRecord, NoAttempt
    <2>3. Typed'
      BY <1>1, <2>1, <2>2 DEF Inv, Typed
    <2>4. Numbered'
      BY <1>1, <2>1, <2>2 DEF Inv, Numbered
    <2>5. Traced' /\ ReceivedIsOwn'
      BY <1>1, <2>1 DEF Inv, Typed, Traced, Outlived, IsRecord, IsManager, ReceivedIsOwn
    <2> QED
      BY <1>2, <2>3, <2>4, <2>5 DEF Inv
  <1> QED
    BY <1>3, <1>4

\* A step of a program that is up, which writes no journal.
LEMMA QuietStep ==
    ASSUME Inv, boot = "Up", boot' = "Up",
           UNCHANGED <<journal, receipts, issued, foreign>>,
           IsManager(manager'), manager'.attempt = manager.attempt,
           manager'.blocked = manager.blocked,
           launched \subseteq launched',
           launched' \subseteq launched \union {manager.attempt.attempt},
           DOMAIN workflow' = {"at", "attempt"},
           workflow'.at \in Busy => IsActive(manager.attempt)
                                    /\ manager.attempt.attempt = workflow'.attempt,
           manager.blocked => workflow' = Idle /\ grants' = {}
    PROVE  Inv'
  <1>1. Typed' /\ Numbered'
    BY DEF Inv, Typed, Numbered, IsManager, IsRecord
  <1>2. Calm' /\ JournalFollows' /\ WorkIsActive' /\ Quarantined' /\ ReceivedIsOwn'
    BY DEF Inv, Calm, JournalFollows, WorkIsActive, Quarantined, ReceivedIsOwn
  <1>3. Traced'
    BY DEF Inv, Traced, Outlived
  <1> QED
    BY <1>1, <1>2, <1>3 DEF Inv

\* Checks change neither the attempt nor the journal.
LEMMA CheckInv ==
    ASSUME Inv, NEW v,
           CheckStarts(v) \/ CheckWrites \/ CheckEnds \/ CheckFails
    PROVE  Inv'
  <1>1. /\ boot = "Up" /\ boot' = "Up"
        /\ UNCHANGED <<journal, receipts, issued, foreign, launched, workflow, grants>>
    BY DEF CheckStarts, CheckWrites, CheckEnds, CheckFails, unchangedByCheck, history,
           Admitted
  <1>2. /\ IsManager(manager') /\ manager'.attempt = manager.attempt
        /\ manager'.blocked = manager.blocked
    BY DEF CheckStarts, CheckWrites, CheckEnds, CheckFails, Inv, Typed, IsManager
  <1> QED
    BY <1>1, <1>2, QuietStep DEF Inv, Typed, WorkIsActive, Quarantined

\* An acceptance comes with an attempt later than any, when none is active.
LEMMA AcceptInv == Inv /\ AcceptInstall => Inv'
  <1> SUFFICES ASSUME Inv, AcceptInstall PROVE Inv'
    OBVIOUS
  <1> DEFINE record == [attempt |-> issued + 1, target |-> manager.pending,
                        phase |-> "Accepted"]
  <1>1. /\ boot = "Up" /\ boot' = "Up" /\ manager.blocked = FALSE
        /\ ~IsActive(manager.attempt) /\ issued' = issued + 1
        /\ UNCHANGED <<receipts, foreign, launched, workflow>>
    BY DEF AcceptInstall, Admitted, history, Inv, Typed, IsManager
  <1>2. \/ journal' = record /\ manager' = [manager EXCEPT !.attempt = record]
        \/ journal' \in {journal, record} /\ manager' = manager
    BY DEF AcceptInstall, WriteJournal
  <1>3. /\ IsRecord(record) /\ record.attempt = issued + 1 /\ issued \in Nat
    BY DEF Inv, Typed, IsRecord
  <1> HIDE DEF record
  <1>4. /\ IsRecord(journal') /\ journal'.attempt \in {journal.attempt, issued + 1}
        /\ IsManager(manager') /\ manager'.blocked = FALSE
        /\ \/ manager'.attempt = manager.attempt
           \/ manager'.attempt = record /\ journal'.attempt = issued + 1
    BY <1>1, <1>2, <1>3 DEF Inv, Typed, IsManager
  <1>5. workflow'.at \notin Busy
    BY <1>1 DEF Inv, WorkIsActive
  <1>6. Typed' /\ Numbered'
    <2>1. Typed'
      BY <1>1, <1>3, <1>4 DEF Inv, Typed
    <2>2. /\ journal.attempt \in Nat /\ journal.attempt <= issued
          /\ manager.attempt.attempt \in Nat /\ manager.attempt.attempt <= issued
      BY DEF Inv, Typed, Numbered, IsRecord, IsManager
    <2>3. journal'.attempt <= issued' /\ manager'.attempt.attempt <= issued'
      BY <1>1, <1>3, <1>4, <2>2
    <2>4. /\ \A id \in launched' \union foreign' : id <= issued'
          /\ \A r \in receipts' : r.attempt <= issued'
      BY <1>1, <1>3 DEF Inv, Typed, Numbered
    <2> QED
      BY <2>1, <2>3, <2>4 DEF Numbered
  <1>7. Calm' /\ JournalFollows' /\ WorkIsActive' /\ Quarantined' /\ ReceivedIsOwn'
    BY <1>1, <1>3, <1>4, <1>5 DEF Calm, JournalFollows, WorkIsActive, Quarantined,
                                  ReceivedIsOwn
  <1>8. Traced'
    <2>1. \A id \in Nat : Outlived(id) => Outlived(id)'
      <3> SUFFICES ASSUME NEW id \in Nat, Outlived(id) PROVE Outlived(id)'
        OBVIOUS
      <3>1. CASE journal.attempt >= id
        <4>1. id <= issued
          BY <3>1 DEF Inv, Typed, Numbered, IsRecord
        <4> QED
          BY <3>1, <4>1, <1>3, <1>4 DEF Outlived, Inv, Typed, IsRecord
      <3>2. CASE \E r \in receipts : r.attempt >= id
        BY <3>2, <1>1 DEF Outlived
      <3> QED
        BY <3>1, <3>2 DEF Outlived
    <2>2. \A id \in launched' : Outlived(id)'
      BY <1>1, <2>1 DEF Inv, Typed, Traced
    <2>3. Outlived(manager.attempt.attempt)'
      <3>1. CASE manager'.attempt = manager.attempt
        BY <2>1, <3>1 DEF Inv, Typed, Traced, IsManager, IsRecord
      <3>2. CASE manager'.attempt = record /\ journal'.attempt = issued + 1
        BY <1>3, <3>2 DEF Outlived
      <3> QED
        BY <1>4, <3>1, <3>2
    <2> QED
      BY <2>2, <2>3 DEF Traced
  <1> QED
    BY <1>6, <1>7, <1>8 DEF Inv

\* A call of the workflow for an attempt that is active writes its journal,
\* or fails to; it stays busy only with a phase that is active.
LEMMA TransitionInv ==
    ASSUME Inv, boot = "Up", manager.blocked = FALSE, IsActive(manager.attempt),
           NEW phase, NEW next, NEW otherwise, Transition(phase, next, otherwise),
           {next, otherwise} \intersect Busy # {} => phase \in Active
    PROVE  Inv'
  <1> DEFINE record == InPhase(phase)
  <1>1. /\ IsRecord(record) /\ record.attempt = manager.attempt.attempt
        /\ record.phase = phase
    BY InAnotherPhase DEF Inv, Typed, IsManager, InPhase
  <1> HIDE DEF record
  <1>2. /\ journal' \in {journal, record}
        /\ manager' = [manager EXCEPT !.attempt = record]
        /\ workflow' \in {[workflow EXCEPT !.at = next], [workflow EXCEPT !.at = otherwise]}
        /\ manager.attempt.attempt = workflow.attempt
        /\ UNCHANGED <<boot, receipts, issued, foreign, launched, grants>>
    BY DEF Transition, WriteJournal, GoTo, unchangedByWork, history, record
  <1>3. IsManager(manager') /\ manager'.attempt = record /\ manager'.blocked = FALSE
    BY <1>1, <1>2 DEF Inv, Typed, IsManager
  <1>4. journal.attempt = manager.attempt.attempt
    BY DEF Inv, JournalFollows
  <1>5. IsRecord(journal') /\ journal'.attempt = journal.attempt
    BY <1>1, <1>2, <1>4 DEF Inv, Typed
  <1>6. /\ DOMAIN workflow' = {"at", "attempt"} /\ workflow'.attempt = workflow.attempt
        /\ workflow'.at \in {next, otherwise}
    BY <1>2 DEF Inv, Typed
  <1>7. Typed' /\ Numbered'
    BY <1>1, <1>2, <1>3, <1>5, <1>6 DEF Inv, Typed, Numbered
  <1>8. workflow'.at \in Busy => IsActive(manager'.attempt)
    BY <1>1, <1>3, <1>6 DEF IsActive
  <1>9. Calm' /\ JournalFollows' /\ WorkIsActive' /\ Quarantined' /\ ReceivedIsOwn'
    BY <1>1, <1>2, <1>3, <1>4, <1>5, <1>6, <1>8
       DEF Calm, JournalFollows, WorkIsActive, Quarantined, ReceivedIsOwn
  <1>10. Traced'
    BY <1>1, <1>2, <1>3, <1>5 DEF Inv, Traced, Outlived
  <1> QED
    BY <1>7, <1>9, <1>10 DEF Inv

\* The workflow's own steps: each is for the attempt that is active.
LEMMA WorkInv ==
    Inv /\ (PrepareBegins \/ InstallerPrepares \/ InstallerFails \/ PrepareSucceeds
              \/ DrainBegins \/ DrainEnds \/ HandoffBegins \/ HandoffRecorded
              \/ HelperLaunched \/ LaunchFails \/ Rollback \/ AttemptFails)
       => Inv'
  <1> SUFFICES ASSUME Inv,
                      PrepareBegins \/ InstallerPrepares \/ InstallerFails
                        \/ PrepareSucceeds \/ DrainBegins \/ DrainEnds \/ HandoffBegins
                        \/ HandoffRecorded \/ HelperLaunched \/ LaunchFails \/ Rollback
                        \/ AttemptFails
               PROVE Inv'
    OBVIOUS
  <1>1. boot = "Up" /\ workflow.at \in Busy \union {"Prepare"}
    BY DEF PrepareBegins, InstallerPrepares, InstallerFails, PrepareSucceeds, DrainBegins,
           DrainEnds, HandoffBegins, HandoffRecorded, HelperLaunched, LaunchFails,
           Rollback, AttemptFails, At, Busy, Undone
  <1>2. manager.blocked = FALSE
    BY <1>1 DEF Inv, Typed, IsManager, Quarantined, Idle, Busy
  <1>3. workflow.at \in Busy =>
            IsActive(manager.attempt) /\ manager.attempt.attempt = workflow.attempt
    BY DEF Inv, WorkIsActive
  <1>4. CASE PrepareBegins \/ PrepareSucceeds \/ DrainBegins \/ HandoffBegins \/ AttemptFails
    <2>1. IsActive(manager.attempt)
      BY <1>3, <1>4 DEF PrepareBegins, PrepareSucceeds, DrainBegins, HandoffBegins,
                        AttemptFails, At, Busy, IsActive, Active
    <2>2. PICK phase, next, otherwise :
             /\ Transition(phase, next, otherwise)
             /\ phase \in Active \/ (next \notin Busy /\ otherwise \notin Busy)
      <3>1. CASE PrepareBegins
        BY <3>1 DEF PrepareBegins, Active
      <3>2. CASE PrepareSucceeds
        BY <3>2 DEF PrepareSucceeds, Active
      <3>3. CASE DrainBegins
        BY <3>3 DEF DrainBegins, Active
      <3>4. CASE HandoffBegins
        BY <3>4 DEF HandoffBegins, HandoffPhase, Active
      <3>5. CASE AttemptFails
        BY <3>5 DEF AttemptFails, Busy
      <3> QED
        BY <1>4, <3>1, <3>2, <3>3, <3>4, <3>5
    <2> QED
      BY <1>1, <1>2, <2>1, <2>2, TransitionInv
  <1>5. CASE InstallerPrepares \/ InstallerFails \/ DrainEnds \/ HandoffRecorded
               \/ HelperLaunched \/ LaunchFails \/ Rollback
    <2>1. workflow.at \in Busy
      BY <1>5 DEF InstallerPrepares, InstallerFails, DrainEnds, HandoffRecorded,
                  HelperLaunched, LaunchFails, Rollback, At, Busy, Undone
    <2>2. /\ boot' = boot
          /\ UNCHANGED <<journal, receipts, issued, foreign, grants>>
      BY <1>5 DEF InstallerPrepares, InstallerFails, DrainEnds, HandoffRecorded,
                  HelperLaunched, LaunchFails, Rollback, unchangedByWork, history
    <2>3. launched' \in {launched, launched \union {workflow.attempt}}
      BY <1>5 DEF InstallerPrepares, InstallerFails, DrainEnds, HandoffRecorded,
                  HelperLaunched, LaunchFails, Rollback, history
    <2>4. \E p : manager' = [manager EXCEPT !.prepared = p] \/ manager' = manager
      BY <1>5 DEF InstallerPrepares, InstallerFails, DrainEnds, HandoffRecorded,
                  HelperLaunched, LaunchFails, Rollback
    <2>5. /\ IsManager(manager') /\ manager'.attempt = manager.attempt
          /\ manager'.blocked = manager.blocked
      BY <2>4 DEF Inv, Typed, IsManager
    <2>6. \E stage : workflow' = [workflow EXCEPT !.at = stage]
      BY <1>5 DEF InstallerPrepares, InstallerFails, DrainEnds, HandoffRecorded,
                  HelperLaunched, LaunchFails, Rollback, GoTo
    <2>7. DOMAIN workflow' = {"at", "attempt"} /\ workflow'.attempt = workflow.attempt
      BY <2>6 DEF Inv, Typed
    <2> QED
      BY <1>1, <1>2, <1>3, <2>1, <2>2, <2>3, <2>5, <2>7, QuietStep
  <1> QED
    BY <1>4, <1>5

\* An acceptance is delivered, or a workflow has ended.
LEMMA ShellInv == Inv /\ (DeliverAcceptance \/ WorkflowEnds) => Inv'
  <1> SUFFICES ASSUME Inv, DeliverAcceptance \/ WorkflowEnds PROVE Inv'
    OBVIOUS
  <1>1. /\ UNCHANGED <<boot, journal, receipts, issued, foreign, launched, manager>>
        /\ boot = "Up"
    BY DEF DeliverAcceptance, WorkflowEnds, disk, history, At, Inv, Calm
  <1>2. /\ DOMAIN workflow' = {"at", "attempt"}
        /\ workflow' = workflow \/ workflow'.at \notin Busy
    BY DEF DeliverAcceptance, WorkflowEnds, Inv, Typed, Idle, Busy
  <1>3. manager.blocked => workflow' = Idle /\ grants' = {}
    BY DEF DeliverAcceptance, WorkflowEnds, Inv, Quarantined
  <1> QED
    BY <1>1, <1>2, <1>3, QuietStep DEF Inv, Typed, WorkIsActive

\* What helpers and installers do leaves the journal alone.
LEMMA HelperInv == Inv /\ HelperStep => Inv'
  <1> SUFFICES ASSUME Inv, HelperStep PROVE Inv'
    OBVIOUS
  <1>1. UNCHANGED <<boot, journal, receipts, issued, foreign, launched, manager,
                    workflow, grants>>
    BY DEF HelperStep, HelperValidates, HelperEnds, HelperFails, InstallerRuns,
           unchangedByHelper, history
  <1> QED
    BY <1>1 DEF Inv, Typed, Numbered, Calm, JournalFollows, WorkIsActive, Traced,
                Quarantined, ReceivedIsOwn, Outlived, IsActive

LEMMA NextInv == Inv /\ [Next]_vars => Inv'
  <1>1. Inv /\ Next => Inv'
    BY StartInv, RecoveryInv, EndInv, ForeignInv, CheckInv, AcceptInv, WorkInv, ShellInv,
       HelperInv DEF Next
  <1>2. Inv /\ UNCHANGED vars => Inv'
    BY DEF vars, disk, history, Inv, Typed, Numbered, Calm, JournalFollows, WorkIsActive,
           Traced, Quarantined, ReceivedIsOwn, Outlived, IsActive
  <1> QED
    BY <1>1, <1>2

-----------------------------------------------------------------------------
\* Whatever crashes, fails or interferes, an attempt that was handed off has
\* its receipt or is in the journal, until a later one is.
THEOREM LaunchedIsNeverForgotten == Spec => []NothingIsForgotten
  <1>1. Inv => NothingIsForgotten
    BY DEF Inv, Typed, IsRecord, Traced, Outlived, NothingIsForgotten, Received, Superseded
  <1> QED
    BY <1>1, InitInv, NextInv, PTL DEF Spec

\* A manager that recovers, or that is in quarantine, leaves the journal of
\* another manager's attempt as it is.
THEOREM JournalsOfOthersAreKept == Spec => OthersAreKept
  <1>1. ASSUME Inv, Next, Recovering \/ manager.blocked, foreign' = foreign,
               journal.attempt \in foreign \ {manager.attempt.attempt}
        PROVE  journal' = journal
    <2>1. boot # "Down" /\ (boot = "Up" => manager.blocked)
      BY <1>1, FreshManager DEF Recovering, Inv, Calm
    <2>2. boot = "Up" => workflow = Idle
      BY <2>1, <1>1 DEF Inv, Quarantined
    <2>3. CASE RemoveJournal
      BY <1>1, <2>3 DEF RemoveJournal, Removable, Inv, ReceivedIsOwn
    <2>4. CASE ForeignAccepts
      <3>1. issued + 1 \in foreign
        BY <1>1, <2>4 DEF ForeignAccepts
      <3> QED
        BY <1>1, <3>1 DEF Inv, Typed, Numbered
    <2>5. CASE ForeignRecovers
      BY <1>1, <2>5 DEF ForeignRecovers, Committable
    <2>6. CASE PrepareBegins \/ PrepareSucceeds \/ DrainBegins \/ HandoffBegins \/ AttemptFails
      BY <2>2, <2>6 DEF PrepareBegins, PrepareSucceeds, DrainBegins, HandoffBegins,
                        AttemptFails, At, Idle
    <2>7. CASE AcceptInstall \/ Start
      BY <2>1, <2>7 DEF AcceptInstall, Admitted, Start, Boot
    <2>8. CASE ~(\/ RemoveJournal \/ ForeignAccepts \/ ForeignRecovers \/ AcceptInstall
                 \/ Start \/ PrepareBegins \/ PrepareSucceeds \/ DrainBegins
                 \/ HandoffBegins \/ AttemptFails)
      BY <1>1, <2>8 DEF Next, Finalize, ClearPending, CommitReceipt, RestorePending,
         StartFails, Crash, Exit, CheckStarts, CheckWrites, CheckEnds, CheckFails,
         DeliverAcceptance, InstallerPrepares, InstallerFails, DrainEnds,
         HandoffRecorded, HelperLaunched, LaunchFails, Rollback, WorkflowEnds,
         HelperStep, HelperValidates, HelperEnds, HelperFails, InstallerRuns, disk,
         unchangedByCheck, unchangedByHelper
    <2> QED
      BY <2>3, <2>4, <2>5, <2>6, <2>7, <2>8
  <1>2. Inv /\ [Next]_vars =>
          [(Recovering \/ manager.blocked) /\ foreign' = foreign
              /\ journal.attempt \in foreign \ {manager.attempt.attempt}
           => journal' = journal]_vars
    BY <1>1
  <1> QED
    BY <1>2, InitInv, NextInv, PTL DEF Spec, OthersAreKept

-----------------------------------------------------------------------------
(* What the disk, the installer and the helpers promise needs more: which  *)
(* attempt each of them is about, and what is written before what.         *)

Shaped ==
    /\ DOMAIN staging = CheckSteps
    /\ DOMAIN manager.check = {"at", "version"}
    /\ DOMAIN budget = {"starts", "faults", "foreign"} /\ budget.starts \in Nat
    /\ grants \subseteq 1..issued
    /\ launched \subseteq 1..issued
    /\ workflow.at # "Idle" => workflow.attempt \in (1..issued) \ grants
    /\ workflow.at = "Idle" => workflow = Idle
    /\ journal = NoAttempt \/ journal.attempt \in 1..issued

\* What each group of steps leaves alone.
Recovers == Finalize \/ ClearPending \/ CommitReceipt \/ RemoveJournal \/ RestorePending
Stops == StartFails \/ Crash \/ Exit
Interferes == ForeignAccepts \/ ForeignRecovers
Checks ==
    \/ \E v \in 1..MaxVersion : CheckStarts(v)
    \/ CheckWrites \/ CheckEnds \/ CheckFails
Reports == PrepareBegins \/ PrepareSucceeds \/ DrainBegins \/ HandoffBegins \/ AttemptFails
Works ==
    \/ InstallerPrepares \/ InstallerFails \/ DrainEnds \/ HandoffRecorded
    \/ HelperLaunched \/ LaunchFails \/ Rollback

LEMMA NextIsGrouped ==
    Next <=> \/ Start \/ Recovers \/ Stops \/ Interferes \/ Checks \/ AcceptInstall
             \/ DeliverAcceptance \/ Reports \/ Works \/ WorkflowEnds \/ HelperStep
  BY DEF Next, Recovers, Stops, Interferes, Checks, Reports, Works

LEMMA SpentElsewhere ==
    ASSUME Shaped, Spend("faults") \/ Spend("foreign") \/ UNCHANGED budget
           \/ budget' = [budget EXCEPT !["faults"] = @ - 2]
    PROVE  DOMAIN budget' = {"starts", "faults", "foreign"}
           /\ budget'.starts = budget.starts
  BY DEF Shaped, Spend

LEMMA StartFrame ==
    ASSUME Inv, Shaped, Start
    PROVE  /\ boot = "Down" /\ boot' \in {"Finalize", "Restore"}
           /\ running' = installed
           /\ UNCHANGED <<platform, installed, backups, receipts, handoff, staging,
                          workflow, grants, issued, history>>
           /\ workflow = Idle /\ grants = {}
           /\ DOMAIN budget' = {"starts", "faults", "foreign"}
           /\ budget'.starts = budget.starts - 1 /\ budget'.starts \in Nat
           /\ helpers' \subseteq helpers
           /\ manager'.prepared = 0 /\ manager'.pending = 0 /\ manager'.check = Fresh.check
  <1>1. Boot /\ helpers' \subseteq helpers
    BY DEF Start
  <1>2. /\ DOMAIN budget' = {"starts", "faults", "foreign"}
        /\ budget'.starts = budget.starts - 1 /\ budget'.starts \in Nat
    <2>1. /\ budget["starts"] > 0
          /\ \/ budget' = [budget EXCEPT !["starts"] = @ - 1]
             \/ budget' = [budget EXCEPT !["starts"] = @ - 1, !["faults"] = @ - 1]
      BY <1>1 DEF Boot, Spend
    <2> QED
      BY <2>1 DEF Shaped
  <1>3. manager' = Fresh \/ \E r : manager' = [Fresh EXCEPT !.attempt = r]
    BY <1>1 DEF Boot
  <1>4. manager'.prepared = 0 /\ manager'.pending = 0 /\ manager'.check = Fresh.check
    BY <1>3 DEF Fresh
  <1> QED
    BY <1>1, <1>2, <1>4 DEF Boot, Inv, Calm

LEMMA RecoverFrame ==
    ASSUME Inv, Shaped, Recovers
    PROVE  /\ boot \notin {"Up", "Down"} /\ boot' # "Down"
           /\ UNCHANGED <<platform, installed, running, workflow, grants, helpers,
                          issued, history>>
           /\ workflow = Idle /\ grants = {} /\ ~IsActive(manager.attempt)
           /\ DOMAIN budget' = {"starts", "faults", "foreign"}
           /\ budget'.starts = budget.starts
           /\ manager'.attempt = manager.attempt /\ manager'.prepared = manager.prepared
           /\ manager'.check = manager.check
           /\ journal' = journal \/ journal' = NoAttempt
  <1>1. Spend("faults") \/ UNCHANGED budget
    BY DEF Recovers, Finalize, ClearPending, CommitReceipt, RemoveJournal, RestorePending,
           Outcome
  <1>2. /\ boot \notin {"Up", "Down"} /\ boot' # "Down"
        /\ UNCHANGED <<platform, installed, running, workflow, grants, helpers, issued,
                       history>>
        /\ journal' = journal \/ journal' = NoAttempt
    BY DEF Recovers, Finalize, ClearPending, CommitReceipt, RemoveJournal, RestorePending,
           disk
  <1>3. /\ manager'.attempt = manager.attempt /\ manager'.prepared = manager.prepared
        /\ manager'.check = manager.check
    BY DEF Recovers, Finalize, ClearPending, CommitReceipt, RemoveJournal, RestorePending,
           Inv, Typed, IsManager
  <1> QED
    BY <1>1, <1>2, <1>3, SpentElsewhere DEF Inv, Calm

LEMMA StopFrame ==
    ASSUME Stops
    PROVE  /\ boot # "Down" /\ boot' = "Down" /\ manager' = Fresh /\ workflow' = Idle
           /\ grants' = {}
           /\ UNCHANGED <<platform, disk, running, helpers, issued, budget, history>>
  BY DEF Stops, StartFails, Crash, Exit, Forgotten

LEMMA InterfereFrame ==
    ASSUME Inv, Shaped, Interferes
    PROVE  /\ boot \in {"Clear", "Commit", "Remove"}
           /\ UNCHANGED <<platform, installed, backups, handoff, boot, running, manager,
                          workflow, grants, helpers, launched, spoiled>>
           /\ workflow = Idle /\ grants = {}
           /\ issued' \in Nat /\ issued' >= issued
           /\ DOMAIN budget' = {"starts", "faults", "foreign"}
           /\ budget'.starts = budget.starts
           /\ staging' \in {staging, NothingStaged}
           /\ \/ journal' = NoAttempt
              \/ issued' = issued + 1 /\ journal'.attempt = issued + 1
  <1>1. Spend("foreign")
    BY DEF Interferes, ForeignAccepts, ForeignRecovers
  <1>2. /\ boot \in {"Clear", "Commit", "Remove"}
        /\ UNCHANGED <<platform, installed, backups, handoff, boot, running, manager,
                       workflow, grants, helpers, launched, spoiled>>
        /\ issued' \in {issued, issued + 1}
        /\ staging' \in {staging, NothingStaged}
        /\ \/ journal' = NoAttempt
           \/ issued' = issued + 1 /\ journal'.attempt = issued + 1
    BY DEF Interferes, ForeignAccepts, ForeignRecovers, history
  <1> QED
    BY <1>1, <1>2, SpentElsewhere DEF Inv, Calm, Typed

LEMMA CheckFrame ==
    ASSUME Inv, Shaped, Checks
    PROVE  /\ boot = "Up"
           /\ UNCHANGED unchangedByCheck
           /\ DOMAIN budget' = {"starts", "faults", "foreign"}
           /\ budget'.starts = budget.starts
           /\ manager'.attempt = manager.attempt /\ manager'.prepared = manager.prepared
           /\ DOMAIN staging' = DOMAIN staging
           /\ DOMAIN manager'.check = {"at", "version"}
  <1>1. Spend("faults") \/ UNCHANGED budget
    BY DEF Checks, CheckStarts, CheckWrites, CheckEnds, CheckFails
  <1>2. boot = "Up" /\ UNCHANGED unchangedByCheck
    BY DEF Checks, CheckStarts, CheckWrites, CheckEnds, CheckFails, Admitted
  <1>3. /\ manager'.attempt = manager.attempt /\ manager'.prepared = manager.prepared
        /\ DOMAIN manager'.check = {"at", "version"}
    BY DEF Checks, CheckStarts, CheckWrites, CheckEnds, CheckFails, Inv, Typed, IsManager,
           Shaped, Fresh
  <1>4. DOMAIN staging' = DOMAIN staging
    BY DEF Checks, CheckStarts, CheckWrites, CheckEnds, CheckFails
  <1> QED
    BY <1>1, <1>2, <1>3, <1>4, SpentElsewhere

\* An acceptance as leader; when its journal cannot be written nothing is
\* granted, but the journal may be there.
LEMMA AcceptFrame ==
    ASSUME Inv, Shaped, AcceptInstall
    PROVE  /\ boot = "Up" /\ ~IsActive(manager.attempt)
           /\ UNCHANGED <<platform, installed, backups, receipts, handoff, staging, boot,
                          running, workflow, helpers, history>>
           /\ issued' = issued + 1 /\ issued' \in Nat
           /\ DOMAIN budget' = {"starts", "faults", "foreign"}
           /\ budget'.starts = budget.starts
           /\ manager'.prepared = manager.prepared /\ manager'.pending = manager.pending
           /\ manager'.check = manager.check
           /\ journal'.attempt = issued + 1 \/ journal' = journal
           /\ \/ UNCHANGED <<manager, grants>>
              \/ /\ grants' = grants \union {issued + 1}
                 /\ manager'.attempt.attempt = issued + 1
                 /\ manager'.attempt.phase = "Accepted"
                 /\ journal'.attempt = issued + 1
  <1> DEFINE record == [attempt |-> issued + 1, target |-> manager.pending,
                        phase |-> "Accepted"]
  <1>1. Spend("faults") \/ UNCHANGED budget
    BY DEF AcceptInstall, WriteJournal, Outcome
  <1>2. record.attempt = issued + 1 /\ record.phase = "Accepted"
    OBVIOUS
  <1>3. /\ journal' \in {journal, record}
        /\ \/ UNCHANGED <<manager, grants>>
           \/ /\ grants' = grants \union {record.attempt}
              /\ manager' = [manager EXCEPT !.attempt = record]
              /\ journal' = record
    BY DEF AcceptInstall, WriteJournal
  <1>4. /\ boot = "Up" /\ ~IsActive(manager.attempt) /\ issued' = issued + 1
        /\ UNCHANGED <<platform, installed, backups, receipts, handoff, staging, boot,
                       running, workflow, helpers, history>>
    BY DEF AcceptInstall, Admitted
  <1> HIDE DEF record
  <1>5. /\ manager'.prepared = manager.prepared /\ manager'.pending = manager.pending
        /\ manager'.check = manager.check
        /\ manager' = [manager EXCEPT !.attempt = record] => manager'.attempt = record
    BY <1>3 DEF Inv, Typed, IsManager
  <1> QED
    BY <1>1, <1>2, <1>3, <1>4, <1>5, SpentElsewhere DEF Inv, Typed

\* A call of the manager for the workflow: the attempt gets a phase, the
\* journal is written or not.
LEMMA ReportFrame ==
    ASSUME Inv, Shaped, Reports
    PROVE  /\ boot = "Up" /\ IsActive(manager.attempt)
           /\ manager.attempt.attempt = workflow.attempt
           /\ UNCHANGED <<unchangedByWork, installed, backups, handoff, helpers, history>>
           /\ DOMAIN budget' = {"starts", "faults", "foreign"}
           /\ budget'.starts = budget.starts
           /\ manager'.prepared = manager.prepared /\ manager'.pending = manager.pending
           /\ manager'.check = manager.check
           /\ manager'.attempt.attempt = manager.attempt.attempt
           /\ journal'.attempt = journal.attempt
           /\ journal.attempt = manager.attempt.attempt
           /\ workflow'.attempt = workflow.attempt
           /\ workflow.at \in {"Prepare", "Finish", "Begin", "Handoff", "FailPrepare",
                               "FailDrain", "FailHandoff"}
           /\ workflow'.at \in {"Install", "Begin", "Undo", "Drain", "Record", "Launch",
                                "Rejected", "Terminate"}
           /\ workflow'.at = "Install" => workflow.at = "Prepare"
                  /\ manager.attempt.phase = "Accepted" /\ manager'.attempt.phase = "Preparing"
           /\ workflow'.at = "Launch" => ~Macos
           /\ workflow'.at = "Record" =>
                  manager'.attempt.phase = "RestartPending" /\ journal' = manager'.attempt
           /\ manager'.attempt.phase # "Accepted"
           /\ workflow'.at = "Rejected" =>
                  \/ manager'.attempt.phase = "Draining" \/ manager.attempt.phase = "Accepted"
                  \/ workflow.at \in {"FailPrepare", "FailDrain", "FailHandoff"}
           /\ IsActive(manager'.attempt) \/ workflow.at \in {"FailPrepare", "FailDrain", "FailHandoff"}
  <1>1. boot = "Up" /\ IsActive(manager.attempt)
    <2>1. CASE PrepareBegins
      BY <2>1 DEF PrepareBegins, At, IsActive, Active
    <2>2. CASE Reports /\ ~PrepareBegins
      BY <2>2 DEF Reports, PrepareSucceeds, DrainBegins, HandoffBegins, AttemptFails, At,
                  Busy, Inv, WorkIsActive
    <2> QED
      BY <2>1, <2>2
  <1>2. PICK phase, next, otherwise :
           /\ Transition(phase, next, otherwise)
           /\ \/ phase = "Preparing" /\ next = "Install" /\ otherwise = "Rejected"
                    /\ workflow.at = "Prepare" /\ manager.attempt.phase = "Accepted"
              \/ phase = "Installing" /\ next = "Begin" /\ otherwise = "Undo"
                    /\ workflow.at = "Finish"
              \/ phase = "Draining" /\ next = "Drain" /\ otherwise = "Rejected"
                    /\ workflow.at = "Begin"
              \/ Macos /\ phase = "RestartPending" /\ next = "Record" /\ otherwise = "Terminate"
                    /\ workflow.at = "Handoff"
              \/ ~Macos /\ phase = "InstallerHandoff" /\ next = "Launch"
                    /\ otherwise = "Terminate" /\ workflow.at = "Handoff"
              \/ phase \in Failures /\ next \in {"Rejected", "Terminate"} /\ otherwise = next
                    /\ workflow.at \in {"FailPrepare", "FailDrain", "FailHandoff"}
    <2>1. CASE PrepareBegins
      BY <2>1 DEF PrepareBegins, At
    <2>2. CASE PrepareSucceeds
      BY <2>2 DEF PrepareSucceeds, At
    <2>3. CASE DrainBegins
      BY <2>3 DEF DrainBegins, At
    <2>4. CASE HandoffBegins
      BY <2>4 DEF HandoffBegins, HandoffPhase, At
    <2>5. CASE AttemptFails
      BY <2>5 DEF AttemptFails, Failures, At
    <2> QED
      BY <2>1, <2>2, <2>3, <2>4, <2>5 DEF Reports
  <1> DEFINE record == InPhase(phase)
  <1>3. /\ IsRecord(record) /\ record.attempt = manager.attempt.attempt
        /\ record.phase = phase
    BY InAnotherPhase DEF Inv, Typed, IsManager, InPhase
  <1> HIDE DEF record
  <1>4. Spend("faults") \/ UNCHANGED budget
    BY <1>2 DEF Transition, WriteJournal, Outcome
  <1>5. /\ manager' = [manager EXCEPT !.attempt = record]
        /\ manager.attempt.attempt = workflow.attempt
        /\ \/ journal' = record /\ workflow' = [workflow EXCEPT !.at = next]
           \/ journal' \in {journal, record} /\ workflow' = [workflow EXCEPT !.at = otherwise]
        /\ UNCHANGED <<unchangedByWork, installed, backups, handoff, helpers, history>>
    BY <1>2 DEF Transition, WriteJournal, GoTo, record
  <1>6. /\ manager'.prepared = manager.prepared /\ manager'.pending = manager.pending
        /\ manager'.check = manager.check /\ manager'.attempt = record
    BY <1>5 DEF Inv, Typed, IsManager
  <1>7. /\ workflow'.attempt = workflow.attempt
        /\ \/ journal' = record /\ workflow'.at = next
           \/ journal' \in {journal, record} /\ workflow'.at = otherwise
    BY <1>5 DEF Inv, Typed
  <1>8. journal.attempt = manager.attempt.attempt /\ journal'.attempt = journal.attempt
    BY <1>1, <1>3, <1>7 DEF Inv, JournalFollows
  <1>9. IsActive(record) <=> phase \in Active
    BY <1>3 DEF IsActive
  <1> QED
    BY <1>1, <1>2, <1>3, <1>4, <1>5, <1>6, <1>7, <1>8, <1>9, SpentElsewhere
       DEF Active, Failures

\* A step of the installer, the drain or the handoff for the workflow.
LEMMA WorkFrame ==
    ASSUME Inv, Shaped, Works
    PROVE  /\ boot = "Up" /\ IsActive(manager.attempt)
           /\ manager.attempt.attempt = workflow.attempt
           /\ UNCHANGED <<unchangedByWork, journal, foreign>>
           /\ DOMAIN budget' = {"starts", "faults", "foreign"}
           /\ budget'.starts = budget.starts
           /\ manager'.attempt = manager.attempt /\ manager'.pending = manager.pending
           /\ manager'.check = manager.check
           /\ workflow'.attempt = workflow.attempt
           /\ workflow.at \in {"Install", "Drain", "Record", "Launch", "Undo", "UndoDrain",
                               "UndoHandoff"}
           /\ workflow'.at \notin {"Idle", "Prepare", "Install", "Record", "Rejected"}
           /\ launched' \subseteq launched \union {workflow.attempt}
           /\ workflow'.at = "Launch" => workflow.at = "Record"
           /\ workflow'.at = "Exit" <=> HelperLaunched
           /\ workflow'.at \in {"FailPrepare", "FailDrain", "FailHandoff"} =>
                  Rollback /\ manager'.prepared = 0
           /\ InstallerPrepares \/ Rollback \/ manager' = manager
  <1>1. /\ boot = "Up"
        /\ workflow.at \in {"Install", "Drain", "Record", "Launch", "Undo", "UndoDrain",
                            "UndoHandoff"}
        /\ UNCHANGED <<unchangedByWork, journal, foreign>>
        /\ launched' \subseteq launched \union {workflow.attempt}
        /\ InstallerPrepares \/ Rollback \/ manager' = manager
    BY DEF Works, InstallerPrepares, InstallerFails, DrainEnds, HandoffRecorded,
           HelperLaunched, LaunchFails, Rollback, At, Undone, history
  <1>2. IsActive(manager.attempt) /\ manager.attempt.attempt = workflow.attempt
    BY <1>1 DEF Inv, WorkIsActive, Busy
  <1>3. \/ Spend("faults") \/ UNCHANGED budget
        \/ budget' = [budget EXCEPT !["faults"] = @ - 2]
    BY DEF Works, InstallerPrepares, InstallerFails, DrainEnds, HandoffRecorded,
           HelperLaunched, LaunchFails, Rollback, Outcome
  <1>4. \E p : manager' = [manager EXCEPT !.prepared = p] \/ manager' = manager
    BY DEF Works, InstallerPrepares, InstallerFails, DrainEnds, HandoffRecorded,
           HelperLaunched, LaunchFails, Rollback
  <1>5. /\ manager'.attempt = manager.attempt /\ manager'.pending = manager.pending
        /\ manager'.check = manager.check
    BY <1>4 DEF Inv, Typed, IsManager
  <1>6. PICK stage : workflow' = [workflow EXCEPT !.at = stage]
           /\ stage \notin {"Idle", "Prepare", "Install", "Record", "Rejected"}
           /\ (stage = "Launch" => workflow.at = "Record")
           /\ (stage = "Exit" <=> HelperLaunched)
           /\ (stage \in {"FailPrepare", "FailDrain", "FailHandoff"} => Rollback)
    <2>1. CASE InstallerPrepares
      BY <2>1 DEF InstallerPrepares, HelperLaunched, GoTo, At
    <2>2. CASE InstallerFails
      BY <2>2 DEF InstallerFails, HelperLaunched, GoTo, At
    <2>3. CASE DrainEnds
      BY <2>3 DEF DrainEnds, HelperLaunched, GoTo, At
    <2>4. CASE HandoffRecorded
      BY <2>4 DEF HandoffRecorded, HelperLaunched, GoTo, At
    <2>5. CASE HelperLaunched
      BY <2>5 DEF HelperLaunched, GoTo, At
    <2>6. CASE LaunchFails
      <3>1. workflow' = [workflow EXCEPT !.at = "UndoHandoff"]
        BY <2>6 DEF LaunchFails, GoTo
      <3>2. workflow'.at = "UndoHandoff"
        BY <3>1 DEF Inv, Typed
      <3>3. ~HelperLaunched
        BY <3>2 DEF HelperLaunched, GoTo, Inv, Typed
      <3> QED
        BY <3>1, <3>3
    <2>7. CASE Rollback
      BY <2>7 DEF Rollback, Undone, HelperLaunched, GoTo, At
    <2> QED
      BY <2>1, <2>2, <2>3, <2>4, <2>5, <2>6, <2>7 DEF Works
  <1>7. workflow'.attempt = workflow.attempt /\ workflow'.at = stage
    BY <1>6 DEF Inv, Typed
  <1>8. Rollback => manager'.prepared = 0
    BY DEF Rollback, Inv, Typed, IsManager
  <1> QED
    BY <1>1, <1>2, <1>3, <1>5, <1>6, <1>7, <1>8, SpentElsewhere

LEMMA HelperFrame ==
    ASSUME Shaped, HelperStep
    PROVE  /\ UNCHANGED <<unchangedByHelper, boot, running, manager>>
           /\ DOMAIN budget' = {"starts", "faults", "foreign"}
           /\ budget'.starts = budget.starts
           /\ installed' = installed \/ boot = "Down"
           /\ \E h \in helpers : \E at :
                 helpers' \in {helpers \ {h}, (helpers \ {h}) \union {[h EXCEPT !.at = at]}}
  <1>1. Spend("faults") \/ UNCHANGED budget
    BY DEF HelperStep, HelperValidates, HelperEnds, HelperFails, InstallerRuns
  <1>2. /\ UNCHANGED <<unchangedByHelper, boot, running, manager>>
        /\ installed' = installed \/ boot = "Down"
    BY DEF HelperStep, HelperValidates, HelperEnds, HelperFails, InstallerRuns
  <1>3. \E h \in helpers : \E at :
           helpers' \in {helpers \ {h}, (helpers \ {h}) \union {[h EXCEPT !.at = at]}}
    BY DEF HelperStep, HelperValidates, HelperEnds, HelperFails, InstallerRuns
  <1> QED
    BY <1>1, <1>2, <1>3, SpentElsewhere

LEMMA ShapedInit == Init => Shaped
  BY UpdateAssumption DEF Init, Shaped, NothingStaged, CheckSteps, Fresh, Idle, NoAttempt

LEMMA ShapedStep == Inv /\ Shaped /\ Next => Shaped'
  <1> SUFFICES ASSUME Inv, Shaped, Next PROVE Shaped'
    OBVIOUS
  <1> USE DEF history, disk
  <1>1. issued \in Nat /\ DOMAIN Fresh.check = {"at", "version"}
        /\ DOMAIN NothingStaged = CheckSteps /\ Idle.at = "Idle"
    BY DEF Inv, Typed, Fresh, NothingStaged, CheckSteps, Idle
  <1>2. CASE Start
    <2>1. /\ UNCHANGED <<staging, workflow, grants, issued, launched>>
          /\ DOMAIN budget' = {"starts", "faults", "foreign"} /\ budget'.starts \in Nat
          /\ DOMAIN manager'.check = {"at", "version"}
      BY <1>1, <1>2, StartFrame
    <2>2. journal' = journal \/ (journal # NoAttempt /\ journal' = Interrupted(journal))
      BY <1>2 DEF Start, Boot
    <2>3. journal' = NoAttempt \/ journal'.attempt \in 1..issued
      BY <2>2, InterruptedRecord DEF Shaped, Inv, Typed
    <2> QED
      BY <2>1, <2>3 DEF Shaped
  <1>3. CASE Recovers
    <2>1. DOMAIN staging' = CheckSteps
      BY <1>1, <1>3 DEF Recovers, Finalize, ClearPending, CommitReceipt, RemoveJournal,
                        RestorePending, Shaped
    <2> QED
      BY <1>3, <2>1, RecoverFrame DEF Shaped
  <1>4. CASE Stops
    BY <1>1, <1>4, StopFrame DEF Shaped
  <1>5. CASE Interferes
    <2>1. /\ UNCHANGED <<workflow, grants, launched, manager>>
          /\ workflow = Idle /\ grants = {} /\ staging' \in {staging, NothingStaged}
          /\ DOMAIN budget' = {"starts", "faults", "foreign"} /\ budget'.starts \in Nat
          /\ issued' \in Nat /\ issued' >= issued
          /\ journal' = NoAttempt \/ (issued' = issued + 1 /\ journal'.attempt = issued + 1)
      BY <1>5, InterfereFrame DEF Shaped
    <2>2. launched' \subseteq 1..issued' /\ grants' \subseteq 1..issued'
      BY <1>1, <2>1 DEF Shaped
    <2>3. journal' = NoAttempt \/ journal'.attempt \in 1..issued'
      BY <1>1, <2>1
    <2> QED
      BY <1>1, <2>1, <2>2, <2>3 DEF Shaped
  <1>6. CASE Checks
    BY <1>6, CheckFrame DEF Shaped, unchangedByCheck
  <1>7. CASE AcceptInstall
    <2>1. /\ UNCHANGED <<staging, workflow, launched>>
          /\ DOMAIN budget' = {"starts", "faults", "foreign"} /\ budget'.starts \in Nat
          /\ DOMAIN manager'.check = {"at", "version"}
          /\ issued' = issued + 1
          /\ grants' = grants \/ grants' = grants \union {issued + 1}
          /\ journal' = journal \/ journal'.attempt = issued + 1
      BY <1>7, AcceptFrame DEF Shaped
    <2>6. (1..issued) \union {issued + 1} \subseteq 1..(issued + 1)
      BY <1>1
    <2>2. /\ grants' \subseteq 1..issued' /\ launched' \subseteq 1..issued'
      BY <2>6, <2>1 DEF Shaped
    <2>3. workflow'.at # "Idle" => workflow'.attempt \in (1..issued') \ grants'
      BY <1>1, <2>1 DEF Shaped
    <2>4. CASE journal' = journal
      <3>1. journal' = NoAttempt \/ journal'.attempt \in 1..issued'
        BY <1>1, <2>1, <2>4 DEF Shaped
      <3> QED
        BY <2>1, <2>2, <2>3, <3>1 DEF Shaped
    <2>5. CASE journal'.attempt = issued + 1
      <3>1. journal'.attempt \in 1..issued'
        BY <1>1, <2>1, <2>5
      <3> QED
        BY <2>1, <2>2, <2>3, <3>1 DEF Shaped
    <2> QED
      BY <2>1, <2>4, <2>5
  <1>8. CASE DeliverAcceptance
    <2>1. PICK id \in grants :
             /\ grants' = grants \ {id}
             /\ workflow' = IF workflow = Idle THEN [at |-> "Prepare", attempt |-> id]
                                               ELSE workflow
      BY <1>8 DEF DeliverAcceptance
    <2>2. UNCHANGED <<staging, journal, budget, manager, launched, issued>>
      BY <1>8 DEF DeliverAcceptance
    <2>3. /\ workflow'.at # "Idle" => workflow'.attempt \in (1..issued) \ grants'
          /\ workflow'.at = "Idle" => workflow' = Idle
      BY <2>1 DEF Shaped
    <2> QED
      BY <2>1, <2>2, <2>3 DEF Shaped
  <1>9. CASE Reports
    <2>1. journal' = NoAttempt \/ journal'.attempt \in 1..issued
      BY <1>9, ReportFrame DEF Shaped, Inv, Typed, NoAttempt, Idle
    <2>2. /\ UNCHANGED <<staging, grants, issued, launched>>
          /\ DOMAIN budget' = {"starts", "faults", "foreign"} /\ budget'.starts \in Nat
          /\ DOMAIN manager'.check = {"at", "version"}
          /\ workflow.at # "Idle" /\ workflow'.at # "Idle"
          /\ workflow'.attempt = workflow.attempt
      BY <1>9, ReportFrame DEF Shaped, unchangedByWork
    <2> QED
      BY <2>1, <2>2 DEF Shaped
  <1>10. CASE Works
    <2>1. /\ UNCHANGED <<staging, grants, issued, journal>>
          /\ launched' \subseteq launched \union {workflow.attempt}
          /\ DOMAIN budget' = {"starts", "faults", "foreign"} /\ budget'.starts \in Nat
          /\ DOMAIN manager'.check = {"at", "version"}
          /\ workflow.at # "Idle" /\ workflow'.at # "Idle"
          /\ workflow'.attempt = workflow.attempt
      BY <1>10, WorkFrame DEF Shaped, unchangedByWork
    <2> QED
      BY <2>1 DEF Shaped
  <1>11. CASE WorkflowEnds
    BY <1>1, <1>11 DEF WorkflowEnds, Shaped
  <1>12. CASE HelperStep
    BY <1>12, HelperFrame DEF Shaped, unchangedByHelper
  <1> QED
    BY <1>2, <1>3, <1>4, <1>5, <1>6, <1>7, <1>8, <1>9, <1>10, <1>11, <1>12, NextIsGrouped

\* What is staged while a check runs, and what is pending after it.
StagedWhole ==
    /\ manager.check.at \in CheckSteps \union {"Idle", "End"}
    /\ boot # "Up" => manager.check.at = "Idle"
    /\ manager.check.at # "Idle" => manager.pending = 0 /\ manager.check.version > running
    /\ manager.check.at \in {"manifest", "receipt", "End"} =>
          staging.artifact = manager.check.version
    /\ manager.check.at \in {"receipt", "End"} => staging.manifest = manager.check.version
    /\ manager.check.at = "End" => staging.receipt = manager.check.version
    /\ InstallableIsStaged

\* Only checks and starts disturb it.
LEMMA StagedWholeStep == Inv /\ Shaped /\ StagedWhole /\ Next => StagedWhole'
  <1> SUFFICES ASSUME Inv, Shaped, StagedWhole, Next PROVE StagedWhole'
    OBVIOUS
  <1> USE DEF history, disk
  <1>1. Fresh.check.at = "Idle" /\ Fresh.pending = 0
    BY DEF Fresh
  <1>2. CASE Start
    BY <1>1, <1>2, StartFrame DEF StagedWhole, InstallableIsStaged, CheckSteps
  <1>3. CASE Recovers
    <2>1. manager'.check.at = "Idle"
      BY <1>3, RecoverFrame DEF StagedWhole
    <2>2. CASE RestorePending
      <3>1. /\ UNCHANGED <<staging, running>>
            /\ manager'.pending # 0 => manager'.pending = staging.receipt /\ Verified(staging)
        BY <2>2 DEF RestorePending, Inv, Typed, IsManager
      <3> QED
        BY <2>1, <3>1 DEF StagedWhole, InstallableIsStaged, Verified, CheckSteps
    <2>3. CASE ~RestorePending
      <3>1. boot' # "Up"
        BY <1>3, <2>3 DEF Recovers, Finalize, ClearPending, CommitReceipt, RemoveJournal
      <3> QED
        BY <2>1, <3>1 DEF StagedWhole, InstallableIsStaged
    <2> QED
      BY <2>2, <2>3
  <1>4. CASE Stops
    BY <1>1, <1>4, StopFrame DEF StagedWhole, InstallableIsStaged
  <1>5. CASE Interferes
    BY <1>5, InterfereFrame DEF StagedWhole, InstallableIsStaged
  <1>6. CASE Checks
    <2>1. boot = "Up" /\ boot' = "Up" /\ running' = running
      BY <1>6, CheckFrame DEF unchangedByCheck
    <2>2. CASE \E v \in 1..MaxVersion : CheckStarts(v)
      <3>1. PICK v \in 1..MaxVersion : CheckStarts(v)
        BY <2>2
      <3>2. /\ manager'.check.at = "artifact" /\ manager'.check.version = v
            /\ manager'.pending = 0 /\ v > running
        BY <3>1 DEF CheckStarts, Inv, Typed, IsManager
      <3> QED
        BY <2>1, <3>2 DEF StagedWhole, InstallableIsStaged, CheckSteps
    <2>3. CASE CheckWrites
      <3>1. /\ manager.check.at \in CheckSteps
            /\ manager'.check.at = AfterStep(manager.check.at)
            /\ manager'.check.version = manager.check.version
            /\ manager'.pending = manager.pending /\ manager.pending = 0
            /\ manager.check.version > running
            /\ staging' = [staging EXCEPT ![manager.check.at] = manager.check.version]
        BY <2>3 DEF CheckWrites, Inv, Typed, IsManager, Shaped, StagedWhole, CheckSteps
      <3>2. /\ manager.check.at = "artifact" =>
                  manager'.check.at = "manifest" /\ staging'.artifact = manager.check.version
            /\ manager.check.at = "manifest" =>
                  /\ manager'.check.at = "receipt"
                  /\ staging'.manifest = manager.check.version
                  /\ staging'.artifact = staging.artifact
            /\ manager.check.at = "receipt" =>
                  /\ manager'.check.at = "End"
                  /\ staging'.receipt = manager.check.version
                  /\ staging'.artifact = staging.artifact
                  /\ staging'.manifest = staging.manifest
        BY <3>1 DEF AfterStep, Shaped, CheckSteps
      <3> QED
        BY <2>1, <3>1, <3>2 DEF StagedWhole, InstallableIsStaged, CheckSteps
    <2>4. CASE CheckEnds
      <3>1. /\ manager.check.at = "End" /\ staging' = staging
            /\ manager'.check = Fresh.check
            /\ manager'.pending = manager.check.version
        BY <2>4 DEF CheckEnds, Inv, Typed, IsManager
      <3> QED
        BY <1>1, <2>1, <3>1 DEF StagedWhole, InstallableIsStaged, CheckSteps
    <2>5. CASE CheckFails
      <3>1. /\ manager.check.at \in CheckSteps /\ manager'.check = Fresh.check
            /\ manager'.pending = manager.pending /\ manager.pending = 0
        BY <2>5 DEF CheckFails, Inv, Typed, IsManager, StagedWhole, CheckSteps
      <3> QED
        BY <1>1, <2>1, <3>1 DEF StagedWhole, InstallableIsStaged, CheckSteps
    <2> QED
      BY <1>6, <2>2, <2>3, <2>4, <2>5 DEF Checks
  <1>7. CASE AcceptInstall \/ Reports \/ Works
    <2>1. /\ UNCHANGED <<staging, running, boot>>
          /\ manager'.check = manager.check /\ manager'.pending = manager.pending
      BY <1>7, AcceptFrame, ReportFrame, WorkFrame DEF unchangedByWork
    <2> QED
      BY <2>1 DEF StagedWhole, InstallableIsStaged
  <1>8. CASE DeliverAcceptance \/ WorkflowEnds \/ HelperStep
    <2>1. UNCHANGED <<staging, running, boot, manager>>
      BY <1>8, HelperFrame DEF DeliverAcceptance, WorkflowEnds, unchangedByHelper
    <2> QED
      BY <2>1 DEF StagedWhole, InstallableIsStaged
  <1> QED
    BY <1>2, <1>3, <1>4, <1>5, <1>6, <1>7, <1>8, NextIsGrouped

\* On macOS the journal waits for the restart before the handoff is recorded,
\* and the record is there before the helper is launched.
RecordedFirst ==
    Macos =>
      /\ workflow.at \in {"Record", "Launch", "Exit"} =>
            /\ journal.attempt = workflow.attempt
            /\ journal.phase = "RestartPending"
            /\ manager.attempt.attempt = workflow.attempt
            /\ IsActive(manager.attempt)
      /\ workflow.at \in {"Launch", "Exit"} => handoff = workflow.attempt

LEMMA RecordedFirstStep == Inv /\ Shaped /\ RecordedFirst /\ Next => RecordedFirst'
  <1> SUFFICES ASSUME Inv, Shaped, RecordedFirst, Next PROVE RecordedFirst'
    OBVIOUS
  <1>0. UNCHANGED platform
    <2>1. CASE Start \/ Recovers \/ Stops \/ Interferes
      BY <2>1, StartFrame, RecoverFrame, StopFrame, InterfereFrame
    <2>2. CASE Checks \/ AcceptInstall \/ HelperStep
      BY <2>2, CheckFrame, AcceptFrame, HelperFrame DEF unchangedByCheck, unchangedByHelper
    <2>3. CASE DeliverAcceptance \/ WorkflowEnds \/ Reports \/ Works
      BY <2>3, ReportFrame, WorkFrame DEF unchangedByWork, DeliverAcceptance, WorkflowEnds
    <2> QED
      BY <2>1, <2>2, <2>3, NextIsGrouped
  <1> SUFFICES ASSUME Macos PROVE RecordedFirst'
    BY <1>0 DEF RecordedFirst, Macos
  <1>1. CASE workflow' = Idle \/ workflow'.at = "Prepare"
    BY <1>1 DEF RecordedFirst, Idle
  <1>2. CASE Start \/ Recovers \/ Stops \/ Interferes \/ WorkflowEnds
    <2>1. workflow' = Idle
      BY <1>2, StartFrame, RecoverFrame, StopFrame, InterfereFrame DEF WorkflowEnds
    <2> QED
      BY <1>1, <2>1
  <1>3. CASE Checks \/ HelperStep
    <2>1. UNCHANGED <<workflow, journal, handoff>> /\ manager'.attempt = manager.attempt
      BY <1>3, CheckFrame, HelperFrame DEF unchangedByCheck, unchangedByHelper
    <2> QED
      BY <2>1 DEF RecordedFirst, Macos
  <1>4. CASE AcceptInstall
    <2>1. workflow' = workflow /\ ~IsActive(manager.attempt)
      BY <1>4, AcceptFrame
    <2> QED
      BY <2>1 DEF RecordedFirst
  <1>5. CASE DeliverAcceptance
    <2>1. UNCHANGED <<journal, handoff, manager>>
          /\ (workflow' = workflow \/ workflow'.at = "Prepare")
      BY <1>5 DEF DeliverAcceptance, disk
    <2> QED
      BY <1>1, <2>1 DEF RecordedFirst, Macos
  <1>6. CASE Reports
    <2>1. CASE workflow'.at = "Record"
      BY <1>6, <2>1, ReportFrame DEF RecordedFirst, IsActive, Active
    <2>2. CASE workflow'.at # "Record"
      BY <1>6, <2>2, ReportFrame DEF RecordedFirst, Macos
    <2> QED
      BY <2>1, <2>2
  <1>7. CASE Works
    <2>1. CASE HelperLaunched
      <3>1. workflow.at = "Launch" /\ UNCHANGED <<journal, handoff>>
        BY <2>1 DEF HelperLaunched, At
      <3> QED
        BY <1>7, <3>1, WorkFrame DEF RecordedFirst, Macos
    <2>2. CASE HandoffRecorded
      <3>1. /\ workflow.at = "Record" /\ UNCHANGED journal
            /\ handoff' = workflow.attempt \/ workflow'.at = "UndoHandoff"
        BY <2>2 DEF HandoffRecorded, At, GoTo, Inv, Typed
      <3> QED
        BY <1>7, <3>1, WorkFrame DEF RecordedFirst, Macos
    <2>3. CASE ~HelperLaunched /\ ~HandoffRecorded
      <3>1. workflow'.at \notin {"Record", "Exit"}
        BY <1>7, <2>3, WorkFrame
      <3>2. workflow'.at # "Launch"
        BY <1>7, <2>3, WorkFrame
           DEF Works, InstallerPrepares, InstallerFails, DrainEnds, LaunchFails, Rollback, At,
               Undone, GoTo, Inv, Typed
      <3> QED
        BY <3>1, <3>2 DEF RecordedFirst
    <2> QED
      BY <2>1, <2>2, <2>3
  <1> QED
    BY <1>2, <1>3, <1>4, <1>5, <1>6, <1>7, NextIsGrouped

\* A helper whose parent lives was launched by the workflow of that parent,
\* which waits for nothing but its end.
ParentExits ==
    \A h \in helpers :
        /\ DOMAIN h = {"attempt", "target", "parent", "at"}
        /\ h.parent \in Nat
        /\ h.parent >= budget.starts
        /\ ParentLives(h) => workflow.at = "Exit" /\ workflow.attempt = h.attempt

LEMMA ParentExitsStep == Inv /\ Shaped /\ ParentExits /\ Next => ParentExits'
  <1> SUFFICES ASSUME Inv, Shaped, ParentExits, Next PROVE ParentExits'
    OBVIOUS
  <1>0. budget.starts \in Nat
    BY DEF Shaped
  <1>1. CASE Start
    <2>1. budget'.starts = budget.starts - 1 /\ helpers' \subseteq helpers
      BY <1>1, StartFrame
    <2> QED
      BY <1>0, <2>1 DEF ParentExits, ParentLives
  <1>2. CASE Stops
    BY <1>2, StopFrame DEF ParentExits, ParentLives
  <1>3. CASE Recovers \/ Interferes
    <2>1. /\ UNCHANGED <<workflow, helpers>> /\ budget'.starts = budget.starts
          /\ boot # "Down"
      BY <1>3, RecoverFrame, InterfereFrame
    <2> QED
      BY <2>1 DEF ParentExits, ParentLives
  <1>4. CASE Checks \/ AcceptInstall
    <2>1. /\ UNCHANGED <<workflow, helpers, boot>> /\ budget'.starts = budget.starts
      BY <1>4, CheckFrame, AcceptFrame DEF unchangedByCheck
    <2> QED
      BY <2>1 DEF ParentExits, ParentLives
  <1>5. CASE DeliverAcceptance \/ WorkflowEnds \/ Reports
    <2>1. /\ UNCHANGED <<helpers, boot>> /\ budget'.starts = budget.starts
          /\ workflow.at = "Exit" => workflow' = workflow
      BY <1>5, ReportFrame
         DEF DeliverAcceptance, WorkflowEnds, At, unchangedByWork, Idle
    <2> QED
      BY <2>1 DEF ParentExits, ParentLives
  <1>6. CASE Works
    <2>1. /\ UNCHANGED boot /\ budget'.starts = budget.starts
          /\ workflow.at # "Exit" /\ boot = "Up"
      BY <1>6, WorkFrame DEF unchangedByWork
    <2>2. \A h \in helpers : h.parent # budget.starts
      BY <2>1 DEF ParentExits, ParentLives
    <2>3. CASE HelperLaunched
      <3>1. helpers' = helpers \union {Helper(workflow.attempt)}
        BY <2>3 DEF HelperLaunched
      <3>2. workflow'.at = "Exit" /\ workflow'.attempt = workflow.attempt
        BY <1>6, <2>3, WorkFrame
      <3>3. /\ DOMAIN Helper(workflow.attempt) = {"attempt", "target", "parent", "at"}
            /\ Helper(workflow.attempt).parent = budget.starts
            /\ Helper(workflow.attempt).attempt = workflow.attempt
        BY DEF Helper
      <3> HIDE DEF Helper
      <3> QED
        BY <1>0, <2>1, <2>2, <3>1, <3>2, <3>3 DEF ParentExits, ParentLives
    <2>4. CASE ~HelperLaunched
      <3>1. helpers' = helpers
        BY <1>6, <2>4 DEF Works, InstallerPrepares, InstallerFails, DrainEnds,
                          HandoffRecorded, LaunchFails, Rollback
      <3> QED
        BY <2>1, <2>2, <3>1 DEF ParentExits, ParentLives
    <2> QED
      BY <2>3, <2>4
  <1>7. CASE HelperStep
    <2>1. UNCHANGED <<workflow, boot>> /\ budget'.starts = budget.starts
      BY <1>7, HelperFrame DEF unchangedByHelper
    <2>h. PICK h \in helpers : \E at :
             helpers' \in {helpers \ {h}, (helpers \ {h}) \union {[h EXCEPT !.at = at]}}
      BY <1>7, HelperFrame
    <2>2. PICK at : helpers' \in {helpers \ {h}, (helpers \ {h}) \union {[h EXCEPT !.at = at]}}
      BY <2>h
    <2>3. DOMAIN h = {"attempt", "target", "parent", "at"}
      BY DEF ParentExits
    <2> DEFINE later == [h EXCEPT !.at = at]
    <2>4. /\ DOMAIN later = {"attempt", "target", "parent", "at"}
          /\ later.parent = h.parent /\ later.attempt = h.attempt
      BY <2>3
    <2>5. \A g \in helpers' : g \in helpers \/ g = later
      BY <2>2
    <2> HIDE DEF later
    <2> QED
      BY <2>1, <2>4, <2>5 DEF ParentExits, ParentLives
  <1> QED
    BY <1>1, <1>2, <1>3, <1>4, <1>5, <1>6, <1>7, NextIsGrouped

LEMMA ParentIsEndorsed == RecordedFirst /\ ParentExits => HelpersAreEndorsed
  BY DEF RecordedFirst, ParentExits, HelpersAreEndorsed, Endorsed

\* What has been put aside belongs to an attempt that is not granted any
\* more, and that has not been prepared for a second time.
PutAsideOnce ==
    \A b \in backups :
        /\ DOMAIN b = {"attempt", "version"}
        /\ b.attempt \in 1..issued
        /\ b.attempt \notin grants
        /\ workflow.at \in {"Prepare", "Install"} => b.attempt # workflow.attempt

LEMMA PutAsideOnceStep == Inv /\ Shaped /\ PutAsideOnce /\ Next => PutAsideOnce'
  <1> SUFFICES ASSUME Inv, Shaped, PutAsideOnce, Next PROVE PutAsideOnce'
    OBVIOUS
  <1> USE DEF disk
  <1>0. issued \in Nat
    BY DEF Inv, Typed
  <1>1. CASE Start \/ Checks \/ HelperStep
    <2>1. UNCHANGED <<backups, grants, workflow, issued>>
      BY <1>1, StartFrame, CheckFrame, HelperFrame DEF unchangedByCheck, unchangedByHelper
    <2> QED
      BY <2>1 DEF PutAsideOnce
  <1>2. CASE Recovers \/ Stops \/ Interferes \/ WorkflowEnds
    <2>1. backups' \subseteq backups
      BY <1>2, InterfereFrame
         DEF Recovers, Finalize, ClearPending, CommitReceipt, RemoveJournal,
             RestorePending, Stops, StartFails, Crash, Exit, WorkflowEnds
    <2>2. workflow' = Idle /\ grants' \subseteq grants /\ issued' \in Nat /\ issued' >= issued
      BY <1>0, <1>2, RecoverFrame, StopFrame, InterfereFrame DEF WorkflowEnds
    <2> QED
      BY <1>0, <2>1, <2>2 DEF PutAsideOnce, Idle
  <1>3. CASE AcceptInstall
    <2>1. /\ UNCHANGED <<backups, workflow>> /\ issued' = issued + 1
          /\ grants' \subseteq grants \union {issued + 1}
      BY <1>3, AcceptFrame
    <2>2. \A b \in backups : b.attempt \in 1..issued' /\ b.attempt # issued + 1
      BY <1>0, <2>1 DEF PutAsideOnce
    <2> QED
      BY <2>1, <2>2 DEF PutAsideOnce
  <1>4. CASE DeliverAcceptance
    <2>1. PICK id \in grants :
             /\ grants' = grants \ {id}
             /\ workflow' = IF workflow = Idle THEN [at |-> "Prepare", attempt |-> id]
                                               ELSE workflow
      BY <1>4 DEF DeliverAcceptance
    <2>2. UNCHANGED <<backups, issued>>
      BY <1>4 DEF DeliverAcceptance
    <2> QED
      BY <2>1, <2>2 DEF PutAsideOnce
  <1>5. CASE Reports
    <2>1. /\ UNCHANGED <<backups, grants, issued>> /\ workflow'.attempt = workflow.attempt
          /\ workflow'.at # "Prepare"
          /\ workflow'.at = "Install" => workflow.at = "Prepare"
      BY <1>5, ReportFrame DEF unchangedByWork
    <2> QED
      BY <2>1 DEF PutAsideOnce
  <1>6. CASE Works
    <2>1. /\ UNCHANGED <<grants, issued>>
          /\ workflow'.at \notin {"Prepare", "Install"}
          /\ workflow.attempt \in (1..issued) \ grants
      BY <1>6, WorkFrame DEF unchangedByWork, Shaped
    <2>2. CASE InstallerPrepares \/ InstallerFails
      <3>1. backups' \subseteq backups \union {[attempt |-> workflow.attempt, version |-> installed]}
        BY <2>2 DEF InstallerPrepares, InstallerFails
      <3> QED
        BY <2>1, <3>1 DEF PutAsideOnce
    <2>3. CASE Rollback
      <3>1. \/ backups' \subseteq backups
            \/ \E b \in backups :
                  backups' = (backups \ {b}) \union {[b EXCEPT !.version = installed]}
        BY <2>3 DEF Rollback
      <3>2. \A b \in backups : /\ DOMAIN [b EXCEPT !.version = installed] = DOMAIN b
                               /\ [b EXCEPT !.version = installed].attempt = b.attempt
        BY DEF PutAsideOnce
      <3> QED
        BY <2>1, <3>1, <3>2 DEF PutAsideOnce
    <2>4. CASE ~(InstallerPrepares \/ InstallerFails \/ Rollback)
      <3>1. backups' = backups
        BY <1>6, <2>4 DEF Works, DrainEnds, HandoffRecorded, HelperLaunched, LaunchFails
      <3> QED
        BY <2>1, <3>1 DEF PutAsideOnce
    <2> QED
      BY <2>2, <2>3, <2>4
  <1> QED
    BY <1>1, <1>2, <1>3, <1>4, <1>5, <1>6, NextIsGrouped

\* What is prepared is the active attempt's, and is taken before it fails; only an
\* attempt whose drain could not be journalled leaves it behind.
PreparedIsActive ==
    /\ manager.prepared # 0 =>
          manager.prepared = manager.attempt.attempt /\ IsActive(manager.attempt)
    /\ manager.attempt.phase = "Accepted" => manager.prepared = 0
    /\ workflow.at = "Install" => manager.attempt.phase = "Preparing"
    /\ workflow.at \in {"Install", "FailPrepare", "FailDrain", "FailHandoff"} =>
          manager.prepared = 0
    /\ workflow.at \in {"Idle", "Rejected"} /\ manager.prepared # 0 =>
          manager.attempt.phase = "Draining"
    /\ boot # "Up" => manager.prepared = 0

LEMMA PreparedIsActiveStep == Inv /\ Shaped /\ PreparedIsActive /\ Next => PreparedIsActive'
  <1> SUFFICES ASSUME Inv, Shaped, PreparedIsActive, Next PROVE PreparedIsActive'
    OBVIOUS
  <1> USE DEF disk
  <1>0. Idle.at = "Idle" /\ Fresh.prepared = 0
    BY DEF Idle, Fresh
  <1>1. CASE Start \/ Stops
    <2>1. manager'.prepared = 0 /\ workflow' = Idle
      BY <1>0, <1>1, StartFrame, StopFrame
    <2> QED
      BY <1>0, <2>1 DEF PreparedIsActive
  <1>2. CASE Recovers \/ Interferes
    <2>1. /\ manager'.attempt = manager.attempt /\ manager'.prepared = manager.prepared
          /\ workflow' = workflow /\ (boot' # "Up" => boot # "Up")
          /\ boot # "Up"
      BY <1>2, RecoverFrame, InterfereFrame DEF Recovers, Interferes, Finalize, ClearPending,
         CommitReceipt, RemoveJournal, RestorePending, ForeignAccepts, ForeignRecovers
    <2> QED
      BY <2>1 DEF PreparedIsActive, IsActive
  <1>3. CASE Checks \/ HelperStep
    <2>1. /\ manager'.attempt = manager.attempt /\ manager'.prepared = manager.prepared
          /\ workflow' = workflow /\ boot' = boot
      BY <1>3, CheckFrame, HelperFrame DEF unchangedByCheck, unchangedByHelper
    <2> QED
      BY <2>1 DEF PreparedIsActive, IsActive
  <1>4. CASE AcceptInstall
    <2>1. /\ manager'.prepared = manager.prepared /\ manager.prepared = 0
          /\ workflow' = workflow /\ workflow.at # "Install" /\ boot' = boot
      BY <1>4, AcceptFrame DEF PreparedIsActive, Inv, WorkIsActive, Busy
    <2> QED
      BY <2>1 DEF PreparedIsActive
  <1>5. CASE DeliverAcceptance \/ WorkflowEnds
    <2>1. /\ manager' = manager /\ boot' = boot
          /\ \/ workflow' = workflow
             \/ workflow.at = "Rejected" /\ workflow'.at = "Idle"
             \/ workflow'.at = "Prepare"
      BY <1>0, <1>5 DEF DeliverAcceptance, WorkflowEnds, At
    <2> QED
      BY <2>1 DEF PreparedIsActive, IsActive
  <1>6. CASE Reports
    <2>1. /\ manager'.prepared = manager.prepared
          /\ manager'.attempt.attempt = manager.attempt.attempt
          /\ manager'.attempt.phase # "Accepted"
          /\ IsActive(manager'.attempt) \/ manager.prepared = 0
          /\ workflow'.at \notin {"Idle", "FailPrepare", "FailDrain", "FailHandoff"}
          /\ workflow'.at = "Rejected" =>
                manager.prepared = 0 \/ manager'.attempt.phase = "Draining"
          /\ workflow'.at = "Install" =>
                manager.prepared = 0 /\ manager'.attempt.phase = "Preparing"
          /\ boot' = "Up"
      BY <1>6, ReportFrame DEF PreparedIsActive, unchangedByWork
    <2> QED
      BY <2>1 DEF PreparedIsActive
  <1>7. CASE Works
    <2>1. /\ manager'.attempt = manager.attempt /\ IsActive(manager.attempt)
          /\ manager.attempt.attempt = workflow.attempt
          /\ workflow'.at \notin {"Install", "Idle", "Rejected"} /\ boot' = "Up"
          /\ workflow'.at \in {"FailPrepare", "FailDrain", "FailHandoff"} =>
                manager'.prepared = 0
      BY <1>7, WorkFrame DEF unchangedByWork
    <2>2. CASE InstallerPrepares
      <3>1. manager'.prepared = workflow.attempt /\ workflow.at = "Install"
        BY <2>2 DEF InstallerPrepares, At, Inv, Typed, IsManager
      <3> QED
        BY <2>1, <3>1 DEF PreparedIsActive
    <2>3. CASE Rollback \/ manager' = manager
      <3>1. manager'.prepared \in {0, manager.prepared}
        BY <2>3 DEF Rollback, Inv, Typed, IsManager
      <3> QED
        BY <2>1, <3>1 DEF PreparedIsActive
    <2> QED
      BY <1>7, <2>2, <2>3, WorkFrame
  <1> QED
    BY <1>1, <1>2, <1>3, <1>4, <1>5, <1>6, <1>7, NextIsGrouped

\* While nothing is spoiled, what runs is installed, or has been put aside, and
\* nothing else of its attempt.
Restorable ==
    boot # "Down" /\ spoiled = {} =>
        IF Macos /\ manager.prepared # 0
        THEN /\ \A b \in backups : b.attempt = manager.prepared => b.version = running
             /\ [attempt |-> manager.prepared, version |-> running] \in backups
        ELSE installed = running

LEMMA RestorableStep ==
    Inv /\ Shaped /\ PutAsideOnce /\ PreparedIsActive /\ Restorable /\ Next => Restorable'
  <1> SUFFICES ASSUME Inv, Shaped, PutAsideOnce, PreparedIsActive, Restorable, Next
               PROVE Restorable'
    OBVIOUS
  <1> USE DEF disk, history
  <1>1. CASE Start
    BY <1>1, StartFrame DEF Restorable
  <1>2. CASE Stops
    BY <1>2, StopFrame DEF Restorable
  <1>3. CASE Recovers \/ Interferes
    <2>1. /\ UNCHANGED <<platform, installed, running, spoiled>> /\ boot # "Down"
          /\ manager'.prepared = manager.prepared
      BY <1>3, RecoverFrame, InterfereFrame
    <2>2. boot # "Up"
      BY <1>3 DEF Recovers, Interferes, Finalize, ClearPending, CommitReceipt, RemoveJournal,
                  RestorePending, ForeignAccepts, ForeignRecovers
    <2>3. manager.prepared = 0
      BY <2>2 DEF PreparedIsActive
    <2> QED
      BY <2>1, <2>3 DEF Restorable, Macos
  <1>4. CASE Checks \/ AcceptInstall \/ Reports
    <2>1. /\ UNCHANGED <<platform, installed, running, spoiled, backups, boot>>
          /\ manager'.prepared = manager.prepared
      BY <1>4, CheckFrame, AcceptFrame, ReportFrame DEF unchangedByCheck, unchangedByWork
    <2> QED
      BY <2>1 DEF Restorable, Macos
  <1>5. CASE DeliverAcceptance \/ WorkflowEnds
    BY <1>5 DEF DeliverAcceptance, WorkflowEnds, Restorable, Macos
  <1>6. CASE HelperStep
    <2>1. /\ UNCHANGED <<platform, running, spoiled, backups, boot, manager>>
          /\ installed' = installed \/ boot = "Down"
      BY <1>6, HelperFrame DEF unchangedByHelper
    <2> QED
      BY <2>1 DEF Restorable, Macos
  <1>7. CASE Works
    <2>1. /\ UNCHANGED <<platform, running, boot>> /\ boot # "Down"
          /\ manager.attempt.attempt = workflow.attempt /\ workflow.attempt # 0
      BY <1>7, WorkFrame DEF unchangedByWork, Shaped
    <2>2. CASE InstallerPrepares
      <3>1. /\ workflow.at = "Install" /\ spoiled' = spoiled
            /\ manager'.prepared = workflow.attempt
        BY <2>2 DEF InstallerPrepares, At, Inv, Typed, IsManager
      <3>2. spoiled = {} => installed = running
        BY <2>1, <3>1 DEF Restorable, PreparedIsActive
      <3>3. CASE Macos
        <4>1. backups' = backups \union {[attempt |-> workflow.attempt, version |-> installed]}
          BY <2>2, <3>3 DEF InstallerPrepares
        <4>2. \A b \in backups : b.attempt # workflow.attempt
          BY <3>1 DEF PutAsideOnce
        <4>3. /\ \A b \in backups' : b.attempt = workflow.attempt => b.version = installed
              /\ [attempt |-> workflow.attempt, version |-> installed] \in backups'
          BY <4>1, <4>2
        <4> QED
          BY <2>1, <3>1, <3>2, <4>3, <3>3 DEF Restorable, Macos
      <3>4. CASE ~Macos
        <4>1. installed' = installed
          BY <2>2, <3>4 DEF InstallerPrepares
        <4> QED
          BY <2>1, <3>1, <3>2, <3>4, <4>1 DEF Restorable, Macos
      <3> QED
        BY <3>3, <3>4
    <2>3. CASE InstallerFails
      <3>1. /\ manager' = manager
            /\ spoiled' # {} \/ UNCHANGED <<installed, backups, spoiled>>
        BY <2>3 DEF InstallerFails
      <3> QED
        BY <2>1, <3>1 DEF Restorable, Macos
    <2>4. CASE Rollback
      <3>1. manager'.prepared = 0
        BY <2>4 DEF Rollback, Inv, Typed, IsManager
      <3>2. CASE Macos /\ manager.prepared = workflow.attempt
        <4>1. \/ \E b \in backups : /\ b.attempt = workflow.attempt /\ installed' = b.version
                                    /\ spoiled' = spoiled
              \/ spoiled' = spoiled \union {workflow.attempt}
          BY <2>4, <3>2 DEF Rollback
        <4> QED
          BY <2>1, <3>1, <3>2, <4>1 DEF Restorable, Macos
      <3>3. CASE ~(Macos /\ manager.prepared = workflow.attempt)
        <4>1. UNCHANGED <<installed, backups, spoiled>>
          BY <2>4, <3>3 DEF Rollback
        <4>2. Macos => manager.prepared = 0
          BY <2>1, <3>3 DEF PreparedIsActive
        <4> QED
          BY <2>1, <3>1, <4>1, <4>2 DEF Restorable, Macos
      <3> QED
        BY <3>2, <3>3
    <2>5. CASE ~(InstallerPrepares \/ InstallerFails \/ Rollback)
      <3>1. UNCHANGED <<installed, backups, spoiled, manager>>
        BY <1>7, <2>5 DEF Works, DrainEnds, HandoffRecorded, HelperLaunched, LaunchFails
      <3> QED
        BY <2>1, <3>1 DEF Restorable, Macos
    <2> QED
      BY <2>2, <2>3, <2>4, <2>5
  <1> QED
    BY <1>1, <1>2, <1>3, <1>4, <1>5, <1>6, <1>7, NextIsGrouped

LEMMA RestorableIsRestored == PreparedIsActive /\ Restorable => FailureRestores
  <1> SUFFICES ASSUME PreparedIsActive, Restorable, boot = "Up", spoiled = {},
                      \/ manager.attempt.phase \in Failures
                      \/ workflow.at \in {"Idle", "Rejected"}
               PROVE  installed = running \/ LeftInPlace
    BY DEF FailureRestores
  <1>1. manager.attempt.phase \in Failures => manager.prepared = 0
    BY DEF Failures, IsActive, Active, PreparedIsActive
  <1>2. CASE Macos /\ manager.prepared # 0
    <2>1. /\ manager.attempt.phase = "Draining"
          /\ manager.prepared = manager.attempt.attempt
      BY <1>1, <1>2 DEF PreparedIsActive
    <2> QED
      BY <1>2, <2>1 DEF Restorable, LeftInPlace
  <1>3. CASE ~(Macos /\ manager.prepared # 0)
    BY <1>3 DEF Restorable
  <1> QED
    BY <1>2, <1>3

\* What is settled already when the start looks for what may be installed.
Settled ==
    boot \in {"Remove", "Restore", "Up"} =>
        \A id \in launched :
            \/ workflow.at = "Exit" /\ workflow.attempt = id
            \/ Received(id)
            \/ manager.attempt.attempt = id /\ manager.attempt.phase \in Failures
            \/ Superseded(id)

LEMMA SettledStep == Inv /\ Shaped /\ Settled /\ Next => Settled'
  <1> SUFFICES ASSUME Inv, Shaped, Settled, Next,
                      boot' \in {"Remove", "Restore", "Up"}, NEW id \in launched'
               PROVE  \/ workflow'.at = "Exit" /\ workflow'.attempt = id
                      \/ Received(id)'
                      \/ manager'.attempt.attempt = id /\ manager'.attempt.phase \in Failures
                      \/ Superseded(id)'
    BY DEF Settled
  <1> USE DEF disk, history, Received, Superseded
  <1>0. /\ issued \in Nat /\ journal.attempt \in Nat /\ manager.attempt.attempt \in Nat
        /\ \A r \in receipts : r.attempt \in Nat
        /\ launched \subseteq 1..issued /\ NoAttempt.attempt = 0
    BY DEF Inv, Typed, IsRecord, IsManager, Shaped, NoAttempt
  <1>1. CASE Start
    <2>1. id \in launched /\ receipts' = receipts
      BY <1>1, StartFrame
    <2>2. id \in Nat /\ id >= 1
      BY <1>0, <2>1
    <2>3. journal.attempt >= id \/ \E r \in receipts : r.attempt >= id
      BY <2>1 DEF Inv, Traced, Outlived
    <2>4. CASE \E r \in receipts : r.attempt >= id
      <3>1. PICK r \in receipts' : r.attempt >= id /\ r.attempt \in Nat
        BY <1>0, <2>1, <2>4
      <3>2. CASE r.attempt = id
        BY <3>1, <3>2
      <3>3. CASE r.attempt > id
        BY <3>1, <3>3
      <3> QED
        BY <2>2, <3>1, <3>2, <3>3
    <2>5. CASE journal.attempt >= id
      <3>1. journal # NoAttempt
        BY <1>0, <2>2, <2>5
      <3> DEFINE failed == Interrupted(journal)
      <3>2. /\ failed.attempt = journal.attempt /\ failed.phase \in Failures
            /\ IsRecord(failed)
        BY InterruptedRecord DEF Inv, Typed, IsRecord, Interrupted, Failures
      <3>3. manager' = [Fresh EXCEPT !.attempt = failed] /\ journal' \in {journal, failed}
        BY <1>1, <3>1, StartFrame DEF Start, Boot
      <3> HIDE DEF failed
      <3>4. manager'.attempt = failed
        BY <3>2, <3>3, FreshWith
      <3>5. journal'.attempt = journal.attempt
        BY <3>2, <3>3
      <3> QED
        BY <1>0, <2>2, <2>5, <3>2, <3>4, <3>5
    <2> QED
      BY <2>3, <2>4, <2>5
  <1>2. CASE Recovers
    <2>1. id \in launched /\ UNCHANGED workflow /\ manager'.attempt = manager.attempt
      BY <1>2, RecoverFrame
    <2>2. id \in Nat /\ id >= 1
      BY <1>0, <2>1
    <2>3. CASE CommitReceipt
      <3>1. journal.attempt >= id \/ \E r \in receipts : r.attempt >= id
        BY <2>1 DEF Inv, Traced, Outlived
      <3>2. \/ receipts' = receipts \union {journal}
            \/ journal.attempt = 0 /\ receipts' = receipts
        BY <1>0, <2>3 DEF CommitReceipt
      <3>3. PICK r \in receipts' : r.attempt >= id /\ r.attempt \in Nat
        BY <1>0, <2>2, <3>1, <3>2
      <3>4. r.attempt = id \/ r.attempt > id
        BY <2>2, <3>3
      <3> QED
        BY <3>3, <3>4
    <2>4. CASE RemoveJournal \/ RestorePending
      <3>1. /\ receipts' = receipts /\ boot \in {"Remove", "Restore"}
            /\ journal' = journal \/ (journal \in receipts /\ journal' = NoAttempt)
        BY <2>4 DEF RemoveJournal, RestorePending, Removable
      <3> QED
        BY <2>1, <3>1 DEF Settled
    <2>5. CASE Finalize \/ ClearPending
      BY <2>5 DEF Finalize, ClearPending
    <2> QED
      BY <1>2, <2>3, <2>4, <2>5 DEF Recovers
  <1>3. CASE Stops
    BY <1>3, StopFrame
  <1>4. CASE Interferes
    <2>1. UNCHANGED <<launched, workflow, manager, boot>>
      BY <1>4, InterfereFrame
    <2>2. CASE ForeignAccepts
      <3>1. journal'.attempt = issued + 1
        BY <2>2 DEF ForeignAccepts
      <3> QED
        BY <1>0, <2>1, <3>1
    <2>3. CASE ForeignRecovers
      <3>1. receipts' = receipts \union {journal}
        BY <2>3 DEF ForeignRecovers
      <3> QED
        BY <2>1, <3>1 DEF Settled
    <2> QED
      BY <1>4, <2>2, <2>3 DEF Interferes
  <1>5. CASE Checks \/ HelperStep
    <2>1. /\ UNCHANGED <<boot, launched, workflow, journal, receipts>>
          /\ manager'.attempt = manager.attempt
      BY <1>5, CheckFrame, HelperFrame DEF unchangedByCheck, unchangedByHelper
    <2> QED
      BY <2>1 DEF Settled
  <1>6. CASE AcceptInstall
    <2>1. /\ UNCHANGED <<launched, workflow, receipts, boot>>
          /\ journal'.attempt = issued + 1 \/ journal' = journal
          /\ manager' = manager \/ manager'.attempt.attempt = issued + 1
      BY <1>6, AcceptFrame
    <2>2. id \in Nat /\ issued + 1 > id
      BY <1>0, <2>1
    <2> QED
      BY <1>0, <2>1, <2>2 DEF Settled
  <1>7. CASE DeliverAcceptance \/ WorkflowEnds
    <2>1. /\ UNCHANGED <<launched, receipts, boot, journal, manager>>
          /\ workflow.at = "Exit" => workflow' = workflow
      BY <1>7 DEF DeliverAcceptance, WorkflowEnds, At, Idle
    <2> QED
      BY <2>1 DEF Settled
  <1>8. CASE Reports
    <2>1. /\ UNCHANGED <<launched, receipts, boot>>
          /\ workflow.at # "Exit" /\ manager.attempt.phase \notin Failures
          /\ journal'.attempt = journal.attempt
          /\ manager'.attempt.attempt = manager.attempt.attempt
      BY <1>8, ReportFrame DEF unchangedByWork, IsActive, Active, Failures
    <2> QED
      BY <2>1 DEF Settled
  <1>9. CASE Works
    <2>1. /\ UNCHANGED <<receipts, boot, journal>>
          /\ workflow.at # "Exit" /\ manager'.attempt = manager.attempt
      BY <1>9, WorkFrame DEF unchangedByWork
    <2>2. CASE id \in launched
      BY <2>1, <2>2 DEF Settled
    <2>3. CASE id \notin launched
      <3>1. HelperLaunched
        BY <1>9, <2>3 DEF Works, InstallerPrepares, InstallerFails, DrainEnds,
                          HandoffRecorded, LaunchFails, Rollback
      <3> QED
        BY <1>9, <2>3, <3>1, WorkFrame
    <2> QED
      BY <2>2, <2>3
  <1> QED
    BY <1>1, <1>2, <1>3, <1>4, <1>5, <1>6, <1>7, <1>8, <1>9, NextIsGrouped

\* What a start has put in order by the time it commits the receipt.
Finalized ==
    /\ boot \in {"Finalize", "Clear", "Commit", "Remove"} =>
          /\ manager.attempt.attempt \in 1..issued
          /\ journal.attempt = manager.attempt.attempt => journal.target = installed
    /\ boot \in {"Clear", "Commit", "Remove"} =>
          /\ handoff = 0
          /\ \A b \in backups : b.attempt # manager.attempt.attempt
    /\ boot \in {"Commit", "Remove"} => staging = NothingStaged

LEMMA FinalizedStep == Inv /\ Shaped /\ Finalized /\ Next => Finalized'
  <1> SUFFICES ASSUME Inv, Shaped, Finalized, Next PROVE Finalized'
    OBVIOUS
  <1> USE DEF disk, history
  <1>0. issued \in Nat /\ NoAttempt.attempt = 0 /\ 0 \notin 1..issued
    BY DEF Inv, Typed, NoAttempt
  <1>1. CASE Start
    <2>1. CASE boot' = "Restore"
      BY <2>1 DEF Finalized
    <2>2. CASE boot' = "Finalize"
      <3> DEFINE applied == [journal EXCEPT !.phase = "Applied"]
      <3>1. /\ journal # NoAttempt /\ IsApplied(journal) /\ UNCHANGED journal
            /\ manager' = [Fresh EXCEPT !.attempt = applied]
        BY <1>1, <2>2 DEF Start, Boot
      <3>2. IsRecord(applied) /\ applied.attempt = journal.attempt
        BY InAnotherPhase DEF Inv, Typed
      <3> HIDE DEF applied
      <3>3. manager'.attempt.attempt = journal.attempt
        BY <3>1, <3>2, FreshWith
      <3>4. UNCHANGED <<installed, issued>>
        BY <1>1, StartFrame
      <3> QED
        BY <2>2, <3>1, <3>3, <3>4 DEF Finalized, Shaped, IsApplied
    <2> QED
      BY <1>1, <2>1, <2>2, StartFrame
  <1>2. CASE Recovers
    <2>1. /\ UNCHANGED <<installed, issued>> /\ manager'.attempt = manager.attempt
      BY <1>2, RecoverFrame
    <2>2. CASE Finalize
      <3>1. /\ boot = "Finalize" /\ UNCHANGED journal /\ boot' \in {"Clear", "Failed"}
            /\ boot' = "Clear" => /\ handoff' = 0
                                  /\ backups' = {b \in backups :
                                         b.attempt # manager.attempt.attempt}
        BY <2>2 DEF Finalize
      <3> QED
        BY <2>1, <3>1 DEF Finalized
    <2>3. CASE ClearPending
      <3>1. /\ boot = "Clear" /\ UNCHANGED <<journal, handoff, backups>>
            /\ boot' \in {"Commit", "Failed"}
            /\ boot' = "Commit" => staging' = NothingStaged
        BY <2>3 DEF ClearPending
      <3> QED
        BY <2>1, <3>1 DEF Finalized
    <2>4. CASE CommitReceipt
      <3>1. /\ boot = "Commit" /\ UNCHANGED <<journal, handoff, backups, staging>>
            /\ boot' \in {"Remove", "Restore", "Conflict", "Failed"}
        BY <2>4 DEF CommitReceipt
      <3> QED
        BY <2>1, <3>1 DEF Finalized
    <2>5. CASE RemoveJournal \/ RestorePending
      <3>1. boot' \in {"Restore", "Up"}
        BY <2>5 DEF RemoveJournal, RestorePending
      <3> QED
        BY <3>1 DEF Finalized
    <2> QED
      BY <1>2, <2>2, <2>3, <2>4, <2>5 DEF Recovers
  <1>3. CASE Stops
    BY <1>3, StopFrame DEF Finalized
  <1>4. CASE Interferes
    <2>1. /\ UNCHANGED <<installed, boot, manager, handoff, backups>>
          /\ staging' \in {staging, NothingStaged}
          /\ issued' \in Nat /\ issued' >= issued
          /\ boot \in {"Clear", "Commit", "Remove"}
          /\ journal' = NoAttempt \/ journal'.attempt = issued + 1
      BY <1>4, InterfereFrame
    <2>2. manager.attempt.attempt \in 1..issued
      BY <2>1 DEF Finalized
    <2>3. manager.attempt.attempt \in 1..issued'
          /\ journal'.attempt # manager.attempt.attempt
      BY <1>0, <2>1, <2>2
    <2> QED
      BY <2>1, <2>3 DEF Finalized
  <1>5. CASE Checks \/ AcceptInstall \/ DeliverAcceptance \/ Reports \/ Works \/ WorkflowEnds
    <2>1. boot = "Up" /\ boot' = "Up"
      <3>1. CASE DeliverAcceptance
        BY <3>1 DEF DeliverAcceptance, Inv, Calm
      <3>2. CASE WorkflowEnds
        BY <3>2 DEF WorkflowEnds, At
      <3> QED
        BY <1>5, <3>1, <3>2, CheckFrame, AcceptFrame, ReportFrame, WorkFrame
           DEF unchangedByCheck, unchangedByWork
    <2> QED
      BY <2>1 DEF Finalized
  <1>6. CASE HelperStep
    <2>1. /\ UNCHANGED <<boot, manager, journal, handoff, backups, staging, issued>>
          /\ installed' = installed \/ boot = "Down"
      BY <1>6, HelperFrame DEF unchangedByHelper
    <2> QED
      BY <2>1 DEF Finalized
  <1> QED
    BY <1>1, <1>2, <1>3, <1>4, <1>5, <1>6, NextIsGrouped

Kept ==
    /\ Shaped /\ StagedWhole /\ RecordedFirst /\ ParentExits /\ PutAsideOnce
    /\ PreparedIsActive /\ Restorable /\ Settled /\ Finalized

LEMMA KeptInit == Init => Kept
  <1> SUFFICES ASSUME Init PROVE Kept
    OBVIOUS
  <1>1. StagedWhole /\ PreparedIsActive
    BY DEF Init, StagedWhole, PreparedIsActive, InstallableIsStaged, Fresh, CheckSteps,
           NoAttempt, Idle
  <1>2. RecordedFirst /\ ParentExits /\ PutAsideOnce
    BY DEF Init, RecordedFirst, ParentExits, PutAsideOnce, Idle
  <1>3. Restorable /\ Settled /\ Finalized
    BY DEF Init, Restorable, Settled, Finalized
  <1> QED
    BY <1>1, <1>2, <1>3, ShapedInit DEF Kept

LEMMA KeptStep == Inv /\ Kept /\ [Next]_vars => Kept'
  <1>1. Inv /\ Kept /\ Next => Kept'
    BY ShapedStep, StagedWholeStep, RecordedFirstStep, ParentExitsStep, PutAsideOnceStep,
       PreparedIsActiveStep, RestorableStep, SettledStep, FinalizedStep DEF Kept
  <1>2. Kept /\ UNCHANGED vars => Kept'
    <2> SUFFICES ASSUME Kept, UNCHANGED vars PROVE Kept'
      OBVIOUS
    <2> USE DEF vars, disk, history
    <2>1. Shaped' /\ StagedWhole' /\ PutAsideOnce'
      BY DEF Kept, Shaped, StagedWhole, PutAsideOnce, InstallableIsStaged
    <2>2. RecordedFirst' /\ ParentExits'
      BY DEF Kept, RecordedFirst, ParentExits, ParentLives, IsActive, Macos
    <2>3. PreparedIsActive' /\ Restorable' /\ Finalized'
      BY DEF Kept, PreparedIsActive, Restorable, Finalized, IsActive, Macos
    <2>4. Settled'
      BY DEF Kept, Settled, Received, Superseded
    <2> QED
      BY <2>1, <2>2, <2>3, <2>4 DEF Kept
  <1> QED
    BY <1>1, <1>2

\* Both invariants together, in every state.
LEMMA KeptHolds == Spec => [](Inv /\ Kept)
  BY InitInv, KeptInit, NextInv, KeptStep, PTL DEF Spec

-----------------------------------------------------------------------------
\* What the shell may install is staged whole: a crash between the writes of
\* a check, or a clean-up after an installation, leaves nothing pending.
THEOREM PendingIsStagedWhole == Spec => []InstallableIsStaged
  <1>1. Inv /\ Kept => InstallableIsStaged
    BY DEF Kept, StagedWhole
  <1> QED
    BY <1>1, KeptHolds, PTL

\* The journal and the handoff record are there for a relaunch helper to
\* validate, for as long as the parent that it waits for lives.
THEOREM HelpersFindTheirRecords == Spec => []HelpersAreEndorsed
  <1>1. Inv /\ Kept => HelpersAreEndorsed
    BY ParentIsEndorsed DEF Kept
  <1> QED
    BY <1>1, KeptHolds, PTL

\* A program that is told of a failed attempt, or whose workflow has rejected or is
\* over, is the one that is installed, unless it was a rollback that failed, or the
\* journal of the drain that could not be written: then what is prepared is left in
\* place, known to the manager, with the backup of what runs.
THEOREM FailuresAreRolledBack == Spec => []FailureRestores
  <1>1. Inv /\ Kept => FailureRestores
    BY RestorableIsRestored DEF Kept
  <1> QED
    BY <1>1, KeptHolds, PTL

\* When a start is over, the handed-off attempts have their receipts or are
\* reported as failures, up to the latest one.
THEOREM StartsSettle == Spec => []EveryStartSettles
  <1>1. Inv /\ Kept => EveryStartSettles
    BY DEF Kept, Settled, EveryStartSettles
  <1> QED
    BY <1>1, KeptHolds, PTL

\* Every receipt is for the version that runs, and comes after the handoff
\* record, the backup and what was staged have gone.
THEOREM ReceiptsAreFinal == Spec => AppliedIsFinal
  <1>1. ASSUME Inv, Kept, Next, NEW r \in receipts' \ receipts
        PROVE  /\ r.target = installed
               /\ r.attempt # handoff
               /\ \A b \in backups : b.attempt # r.attempt
               /\ staging' = NothingStaged
    <2>1. /\ boot \in {"Clear", "Commit", "Remove"}
          /\ r = journal /\ Committable(journal)
          /\ staging' = NothingStaged \/ (boot = "Commit" /\ staging' = staging)
      <3>1. CASE Start
        BY <1>1, <3>1, StartFrame DEF Kept
      <3>2. CASE Recovers
        BY <1>1, <3>2 DEF Recovers, Finalize, ClearPending, CommitReceipt, RemoveJournal,
                          RestorePending, disk
      <3>3. CASE Stops \/ WorkflowEnds \/ DeliverAcceptance
        BY <1>1, <3>3, StopFrame DEF WorkflowEnds, DeliverAcceptance, disk
      <3>4. CASE Interferes
        BY <1>1, <3>4 DEF Interferes, ForeignAccepts, ForeignRecovers
      <3>5. CASE Checks \/ AcceptInstall \/ HelperStep
        BY <1>1, <3>5, CheckFrame, AcceptFrame, HelperFrame
           DEF Kept, unchangedByCheck, unchangedByHelper
      <3>6. CASE Reports \/ Works
        BY <1>1, <3>6, ReportFrame, WorkFrame DEF Kept, unchangedByWork
      <3> QED
        BY <1>1, <3>1, <3>2, <3>3, <3>4, <3>5, <3>6, NextIsGrouped
    <2>2. r.attempt = manager.attempt.attempt /\ r.attempt \in 1..issued /\ issued \in Nat
      BY <1>1, <2>1 DEF Committable, Kept, Finalized, Inv, Typed
    <2> QED
      BY <1>1, <2>1, <2>2 DEF Kept, Finalized
  <1>2. Inv /\ Kept /\ [Next]_vars =>
          [\A r \in receipts' \ receipts :
              /\ r.target = installed
              /\ r.attempt # handoff
              /\ \A b \in backups : b.attempt # r.attempt
              /\ staging' = NothingStaged]_vars
    BY <1>1
  <1> QED
    BY <1>2, KeptHolds, PTL DEF Spec, AppliedIsFinal

=============================================================================
