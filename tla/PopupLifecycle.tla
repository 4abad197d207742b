--------------------------- MODULE PopupLifecycle ---------------------------
(***************************************************************************)
(* chromiumPopupLifecycleCoordinator.ts: the popups that pages open.  The  *)
(* opener's window-open handler allows a window, Electron creates it, the  *)
(* Core admits it, and only then is it shown.  Each popup has a chain of   *)
(* tasks (`sequence') that commits its events to the Core one at a time;   *)
(* around the chains the owners retire, move and reload, a window changes  *)
(* its zoom, and the coordinator is disposed.  One JavaScript thread: an   *)
(* action is a callback, a call, or what follows an answer of the Core.    *)
(* The popup's record in the Core (popup_lifecycle.rs) changes when its    *)
(* answer is taken: the chain has one commit under way at a time.          *)
(***************************************************************************)
EXTENDS Naturals, FiniteSets, Sequences, SequencesExt

CONSTANTS
    Popups,     \* the windows that a page may open, all on one parent window
    Calls,      \* the calls that others make of the coordinator
    KindOf,     \* [Calls -> Kinds]
    OwnerOf,    \* the owner of a popup, or of what a call is about
    MaxPopups,  \* MAX_POPUPS
    MaxCalls,   \* bound: calls made
    MaxEvents,  \* bound: events of native windows
    MaxFailures \* bound: commits that the Core rejects, and native failures

Kinds == {"Retire", "Move", "Reload", "Zoom", "Dispose"}
Owners == {OwnerOf[p] : p \in Popups}

ASSUME PopupAssumption ==
    /\ KindOf \in [Calls -> Kinds]
    /\ {MaxPopups, MaxCalls, MaxEvents, MaxFailures} \subseteq Nat

VARIABLES
    state,      \* #state: "open", "draining" or "closed"
    popups,     \* #records with their native windows and the Core's records
    calls,      \* each call: its stage, and the popups it waits for
    retired,    \* #retiredOwnerFences
    moving,     \* #movingOwnerFences: how many moves each owner is in
    leases,     \* #ownerReloadAdmissionLeases: the reloads that hold one
    zoomLease,  \* #windowZoomAdmissionLeases: the zoom that holds it, or {}
    factor,     \* the zoom factor of the parent window
    budget      \* what is left of the bounds

vars == <<state, popups, calls, retired, moving, leases, zoomLease, factor,
          budget>>
fences == <<retired, moving, leases, zoomLease>>

NoPopup ==
    [state |-> "absent", native |-> "None", shown |-> FALSE, core |-> "None",
     queue |-> <<>>, step |-> "Idle", closed |-> FALSE, failed |-> FALSE,
     ready |-> FALSE, terminal |-> "Pending", zoom |-> 0, astray |-> FALSE]

Init ==
    /\ state = "open"
    /\ popups = [p \in Popups |-> NoPopup]
    /\ calls = [c \in Calls |-> [stage |-> "Idle", awaits |-> {}]]
    /\ retired = {}
    /\ moving = [o \in Owners |-> 0]
    /\ leases = {}
    /\ zoomLease = {}
    /\ factor = 0
    /\ budget = [calls |-> MaxCalls, events |-> MaxEvents, failures |-> MaxFailures]

Spend(what) ==
    /\ budget[what] > 0
    /\ budget' = [budget EXCEPT ![what] = @ - 1]

-----------------------------------------------------------------------------
(* Who is fenced *)
Records == {p \in Popups :
               popups[p].state \in {"admitting", "nativeReady", "ready", "closing"}}

\* #admissionFlights: the popups whose admission has not settled.
Flights == {p \in Records : popups[p].queue # <<>> /\ Head(popups[p].queue) = "Admit"}

Owned(o) == {p \in Popups : OwnerOf[p] = o}

\* #ownerTerminallyFenced and #ownerAdmissionFenced
TerminallyFenced(o) == o \in retired \/ moving[o] > 0
AdmissionFenced(o) == TerminallyFenced(o) \/ \E c \in leases : OwnerOf[c] = o

-----------------------------------------------------------------------------
(* One popup: what the code does to its record r *)

\* The task at the head of the chain has returned.
Returned(r) == [r EXCEPT !.step = "Idle", !.queue = Tail(@)]

\* window.destroy(), or the end of the window: its "closed" listener runs.
Destroyed(r) ==
    IF r.native # "Alive" THEN r
    ELSE [r EXCEPT !.native = "Destroyed", !.shown = FALSE, !.closed = TRUE,
                   !.queue = Append(@, "Closed")]

\* Mutant: the terminal promise is never settled.
Unsettled(r, outcome) ==
    [NoPopup EXCEPT !.state = "terminal", !.native = r.native, !.shown = r.shown,
                    !.core = r.core]

\* settleTerminal and removeRecord: the record is dropped, and what is left of
\* its chain does nothing.
Settled(r, outcome) ==
    [NoPopup EXCEPT !.state = "terminal", !.native = r.native, !.shown = r.shown,
                    !.core = r.core, !.terminal = outcome]

\* The end of failRecord when the Core has not ended the popup.
Abandoned(r) == Settled(Destroyed(r), "Rejected")

\* failRecord: without an admission the popup is over; one that is being
\* admitted is cancelled; any other failure is reported with what is known of
\* the window.
Failed(r) ==
    CASE r.core = "None" -> Abandoned(r)
      [] r.core # "None" /\ r.state = "admitting" -> [r EXCEPT !.step = "Cancel"]
      [] OTHER -> [r EXCEPT !.step =
                      IF r.native = "Alive" THEN "FailUnknown" ELSE "FailKnown"]

\* requestClose
CloseRequested(r) ==
    IF r.state = "closing"
    THEN IF r.closed THEN [r EXCEPT !.step = "NativeClosed"] ELSE Returned(r)
    ELSE [r EXCEPT !.step = "Close"]

\* Mutant: the end of a window matters only to a popup that was told to close.
ClosedOnlyWhenClosing(r) ==
    IF r.state = "closing" THEN [r EXCEPT !.step = "NativeClosed"] ELSE Returned(r)

\* observeNativeClosed
ClosedObserved(r) ==
    IF r.state = "closing" THEN [r EXCEPT !.step = "NativeClosed"] ELSE CloseRequested(r)

\* pageReady
PageReady(r) ==
    IF r.state = "nativeReady" THEN [r EXCEPT !.step = "PageReady"] ELSE Returned(r)

\* What a popup learns while it is being admitted and must not be shown after.
Interrupted(r) == r.closed \/ r.failed \/ r.native = "Destroyed"

-----------------------------------------------------------------------------
(* handleWindowOpen: the opener's handler allows the window *)
WindowOpen(p) ==
    /\ popups[p].state = "absent"
    /\ state = "open"
    /\ ~AdmissionFenced(OwnerOf[p])
    /\ Cardinality(Records) < MaxPopups
    /\ zoomLease = {}
    /\ popups' = [popups EXCEPT ![p].state = "allowed"]
    /\ UNCHANGED <<state, calls, fences, factor, budget>>

\* Mutant: what the handler has allowed is not checked again.
AsAllowed(p) == Cardinality(Records) < MaxPopups

\* didCreateWindow: the conditions it checks again (the zoom lease is not
\* among them).
Admissible(p) ==
    /\ state = "open"
    /\ ~AdmissionFenced(OwnerOf[p])
    /\ Cardinality(Records) < MaxPopups

\* The window is taken, and its admission requested from the Core.
DidCreateWindow(p) ==
    /\ popups[p].state = "allowed"
    /\ Admissible(p)
    /\ popups' = [popups EXCEPT ![p] =
                     [@ EXCEPT !.state = "admitting", !.native = "Alive",
                               !.queue = <<"Admit">>, !.step = "Admission",
                               !.astray = zoomLease # {}]]
    /\ UNCHANGED <<state, calls, fences, factor, budget>>

\* The window is destroyed: the owner is fenced by now, or Electron has
\* created another window than the one allowed.
RefuseWindow(p) ==
    /\ popups[p].state = "allowed"
    /\ popups' = [popups EXCEPT ![p] = [@ EXCEPT !.state = "refused", !.native = "Destroyed"]]
    /\ UNCHANGED <<state, calls, fences, factor, budget>>

-----------------------------------------------------------------------------
(* The listeners *)
Listening(p) == p \in Records /\ popups[p].native = "Alive"

\* "close": the window is asked to close.
WindowCloses(p) ==
    /\ Listening(p)
    /\ Spend("events")
    /\ popups' = [popups EXCEPT ![p].queue = Append(@, "Close")]
    /\ UNCHANGED <<state, calls, fences, factor>>

\* "closed" and "destroyed"
WindowClosed(p) ==
    /\ Listening(p)
    /\ Spend("events")
    /\ popups' = [popups EXCEPT ![p] = Destroyed(@)]
    /\ UNCHANGED <<state, calls, fences, factor>>

\* didFailLoad, renderProcessGone and rejectNavigation
LoadFails(p) ==
    /\ Listening(p)
    /\ Spend("events")
    /\ popups' = [popups EXCEPT ![p].failed = TRUE, ![p].queue = Append(@, "Close")]
    /\ UNCHANGED <<state, calls, fences, factor>>

\* didFinishLoad
LoadFinishes(p) ==
    /\ Listening(p)
    /\ Spend("events")
    /\ popups' = [popups EXCEPT ![p].ready = TRUE, ![p].queue = Append(@, "PageReady")]
    /\ UNCHANGED <<state, calls, fences, factor>>

-----------------------------------------------------------------------------
(* The chain *)

\* The next task starts.  "Sync" stands for a caller that awaits `sequence'.
TaskStarts(p) ==
    LET r == popups[p] IN
    /\ r.step = "Idle" /\ r.queue # <<>>
    /\ popups' = [popups EXCEPT ![p] =
                     CASE Head(r.queue) = "Close" -> CloseRequested(r)
                       [] Head(r.queue) = "Closed" -> ClosedObserved(r)
                       [] Head(r.queue) = "PageReady" -> PageReady(r)
                       [] OTHER -> Returned(r)]
    /\ UNCHANGED <<state, calls, fences, factor, budget>>

Answered(p, r) ==
    /\ popups' = [popups EXCEPT ![p] = r]
    /\ UNCHANGED <<state, calls, fences, factor, budget>>

\* admit, when the Core has admitted the popup: closed at once if something
\* has happened since (its parent may be resolved anew, too), else sized,
\* zoomed and reported as ready.
AdmissionAnswered(p) ==
    LET r == [popups[p] EXCEPT !.core = "Admitted"]
        fenced == state # "open" \/ AdmissionFenced(OwnerOf[p])
    IN  /\ r.step = "Admission"
        /\ \E reparented \in BOOLEAN :
              Answered(p, IF fenced \/ reparented \/ Interrupted(r) THEN CloseRequested(r)
                          ELSE [r EXCEPT !.zoom = factor, !.step = "NativeReady"])

\* admit, when the Core has taken the native window: shown, unless it was
\* closed or has failed.  The owner's fences are not looked at again.
NativeReadyAnswered(p) ==
    LET r == [popups[p] EXCEPT !.core = "NativeReady", !.state = "nativeReady"] IN
    /\ r.step = "NativeReady"
    /\ Answered(p,
         IF Interrupted(r) THEN CloseRequested(r)
         ELSE LET shown == [r EXCEPT !.shown = TRUE]
              IN  IF r.ready THEN PageReady(shown) ELSE Returned(shown))

PageReadyAnswered(p) ==
    /\ popups[p].step = "PageReady"
    /\ Answered(p, Returned([popups[p] EXCEPT !.core = "Ready", !.state = "ready"]))

\* requestClose: the Core ends a popup that has no native window yet, any
\* other one when its window has closed.
CloseAnswered(p) ==
    LET r == popups[p] IN
    /\ r.step = "Close"
    /\ Answered(p,
         IF r.core = "Admitted"
         THEN Settled(Destroyed([r EXCEPT !.core = "Ended"]), "Resolved")
         ELSE [Destroyed([r EXCEPT !.core = "Closing", !.state = "closing"])
                 EXCEPT !.step = "NativeClosed"])

\* nativeClosed
NativeClosedAnswered(p) ==
    /\ popups[p].step = "NativeClosed"
    /\ Answered(p, Settled([popups[p] EXCEPT !.core = "Ended"], "Resolved"))

\* cancelOpening
CancelAnswered(p) ==
    /\ popups[p].step = "Cancel"
    /\ Answered(p, Settled(Destroyed([popups[p] EXCEPT !.core = "Ended"]), "Resolved"))

\* failRecord: the Core cannot tell what became of a window that was alive, and
\* waits for the end of one that was not; the record is over for both.
FailureAnswered(p) ==
    LET r == popups[p] IN
    /\ r.step \in {"FailUnknown", "FailKnown"}
    /\ Answered(p, Abandoned([r EXCEPT !.core =
                       IF r.step = "FailUnknown" THEN "Indeterminate" ELSE "Closing"]))

\* The Core has taken the native window, which then refuses to be shown.
ShowFails(p) ==
    LET r == [popups[p] EXCEPT !.core = "NativeReady", !.state = "nativeReady"] IN
    /\ r.step = "NativeReady" /\ ~Interrupted(r)
    /\ Spend("failures")
    /\ popups' = [popups EXCEPT ![p] = Failed(r)]
    /\ UNCHANGED <<state, calls, fences, factor>>

\* A commit is rejected, or the native window refuses its bounds or its zoom.
\* The second failure in a row ends the record.
StepFails(p) ==
    LET r == popups[p] IN
    /\ r.step # "Idle"
    /\ Spend("failures")
    /\ popups' = [popups EXCEPT ![p] =
                     IF r.step \in {"Cancel", "FailUnknown", "FailKnown"} THEN Abandoned(r)
                     ELSE Failed(r)]
    /\ UNCHANGED <<state, calls, fences, factor>>

-----------------------------------------------------------------------------
(* The calls *)
Begins(c, kind) ==
    /\ KindOf[c] = kind
    /\ calls[c].stage = "Idle"
    /\ Spend("calls")

Stage(c, stage, awaits) == calls' = [calls EXCEPT ![c] = [stage |-> stage, awaits |-> awaits]]

OwnFlights(c) == Flights \cap Owned(OwnerOf[c])
WithoutLeases(o) == {c \in leases : OwnerOf[c] # o}

\* retireOwner: the owner is fenced for good.
Retire(c) ==
    /\ Begins(c, "Retire")
    /\ retired' = retired \cup {OwnerOf[c]}
    /\ leases' = WithoutLeases(OwnerOf[c])
    /\ Stage(c, "Flights", OwnFlights(c))
    /\ UNCHANGED <<state, popups, moving, zoomLease, factor>>

\* retireOwnerPopupsForMove: the owner is fenced until its popups are gone.
Move(c) ==
    /\ Begins(c, "Move")
    /\ moving' = [moving EXCEPT ![OwnerOf[c]] = @ + 1]
    /\ leases' = WithoutLeases(OwnerOf[c])
    /\ Stage(c, "Flights", OwnFlights(c))
    /\ UNCHANGED <<state, popups, retired, zoomLease, factor>>

\* dispose: a second caller gets the promise of the first.
Dispose(c) ==
    /\ Begins(c, "Dispose")
    /\ state # "closed"
    /\ ~\E d \in Calls : KindOf[d] = "Dispose" /\ calls[d].stage \in {"Flights", "Records"}
    /\ state' = "draining"
    /\ Stage(c, "Flights", Flights)
    /\ UNCHANGED <<popups, fences, factor>>

\* Mutant: popups whose admission is under way are not waited for.
NoFlights(c) == {}

\* The flights that a reload or a zoom waits for.
FlightsBefore(c) == IF KindOf[c] = "Zoom" THEN Flights ELSE OwnFlights(c)

\* prepareOwnerReload
Reload(c) ==
    /\ Begins(c, "Reload")
    /\ state = "open"
    /\ ~TerminallyFenced(OwnerOf[c])
    /\ leases' = leases \cup {c}
    /\ Stage(c, "Flights", FlightsBefore(c))
    /\ UNCHANGED <<state, popups, retired, moving, zoomLease, factor>>

\* prepareWindowZoomTransaction
Zoom(c) ==
    /\ Begins(c, "Zoom")
    /\ state = "open"
    /\ zoomLease = {}
    /\ zoomLease' = {c}
    /\ Stage(c, "Flights", FlightsBefore(c))
    /\ UNCHANGED <<state, popups, retired, moving, leases, factor>>

\* The popups that a call goes on to once the flights have landed.
Subjects(c) ==
    CASE KindOf[c] \in {"Retire", "Move", "Reload"} -> Records \cap Owned(OwnerOf[c])
      [] OTHER -> {p \in Records : popups[p].core # "None" \/ KindOf[c] = "Dispose"}

\* The flights have landed: the popups are told to close, or their chains are
\* awaited.
FlightsLand(c) ==
    LET S == Subjects(c)
        task == IF KindOf[c] \in {"Reload", "Zoom"} THEN "Sync" ELSE "Close"
    IN  /\ calls[c].stage = "Flights"
        /\ calls[c].awaits \cap Flights = {}
        /\ popups' = [p \in Popups |->
                         IF p \in S THEN [popups[p] EXCEPT !.queue = Append(@, task)]
                         ELSE popups[p]]
        /\ Stage(c, "Records", S)
        /\ UNCHANGED <<state, fences, factor, budget>>

Rejected(c) == \E p \in calls[c].awaits : popups[p].terminal = "Rejected"
AllTerminal(c) == \A p \in calls[c].awaits : popups[p].terminal # "Pending"
Outcome(c) == IF Rejected(c) THEN "Failed" ELSE "Done"

\* The `finally' of retireOwnerPopupsForMove.
MovesLeft(c) == IF KindOf[c] = "Move" THEN [moving EXCEPT ![OwnerOf[c]] = @ - 1] ELSE moving

\* The terminals of a retirement, a move or dispose have settled; the first
\* that is rejected rejects the call.
RetireEnds(c) ==
    /\ KindOf[c] \in {"Retire", "Move", "Dispose"}
    /\ calls[c].stage = "Records"
    /\ Rejected(c) \/ AllTerminal(c)
    /\ Stage(c, Outcome(c), {})
    /\ moving' = MovesLeft(c)
    /\ IF KindOf[c] = "Dispose" /\ ~Rejected(c)
       THEN state' = "closed" /\ leases' = {}
       ELSE UNCHANGED <<state, leases>>
    /\ UNCHANGED <<popups, retired, zoomLease, factor, budget>>

InSync(c) == \A p \in calls[c].awaits : "Sync" \notin Range(popups[p].queue)

\* prepareOwnerReload returns: it holds its lease, or was superseded.
ReloadPrepared(c) ==
    LET holds == state = "open" /\ c \in leases /\ ~TerminallyFenced(OwnerOf[c]) IN
    /\ KindOf[c] = "Reload"
    /\ calls[c].stage = "Records"
    /\ InSync(c)
    /\ Stage(c, IF holds THEN "Held" ELSE "Failed", {})
    /\ leases' = IF holds THEN leases ELSE leases \ {c}
    /\ UNCHANGED <<state, popups, retired, moving, zoomLease, factor, budget>>

\* releaseOwnerReload
ReloadReleased(c) ==
    /\ KindOf[c] = "Reload"
    /\ calls[c].stage = "Held"
    /\ Stage(c, "Done", {})
    /\ leases' = leases \ {c}
    /\ UNCHANGED <<state, popups, retired, moving, zoomLease, factor, budget>>

ZoomCandidates(c) == {p \in calls[c].awaits :
                         /\ popups[p].state \in {"nativeReady", "ready"}
                         /\ popups[p].native = "Alive"}

\* apply and commit: every candidate and the window take the new factor.
ZoomApplied(c) ==
    /\ KindOf[c] = "Zoom"
    /\ calls[c].stage = "Records"
    /\ InSync(c)
    /\ \A p \in ZoomCandidates(c) : popups[p].zoom = factor
    /\ factor' = 1 - factor
    /\ popups' = [p \in Popups |->
                     IF p \in ZoomCandidates(c) THEN [popups[p] EXCEPT !.zoom = factor']
                     ELSE popups[p]]
    /\ zoomLease' = {}
    /\ Stage(c, "Done", {})
    /\ UNCHANGED <<state, retired, moving, leases, budget>>

\* Popups whose rollback fails keep the new factor, and are astray.
Stuck(p) == [popups[p] EXCEPT !.zoom = 1 - factor, !.astray = TRUE]

\* The transaction fails, or is rolled back.  What was applied is undone, except
\* for popups that do not take their former factor: that is reported as unknown
\* compensation.  The lease is released whatever happens.
ZoomFails(c) ==
    /\ KindOf[c] = "Zoom"
    /\ calls[c].stage = "Records"
    /\ InSync(c)
    /\ \E stuck \in SUBSET ZoomCandidates(c) :
          /\ \/ stuck = {} /\ UNCHANGED budget
             \/ /\ stuck # {} /\ Spend("failures")
                /\ \A p \in ZoomCandidates(c) : popups[p].zoom = factor
          /\ popups' = [p \in Popups |-> IF p \in stuck THEN Stuck(p) ELSE popups[p]]
    /\ zoomLease' = {}
    /\ Stage(c, "Failed", {})
    /\ UNCHANGED <<state, retired, moving, leases, factor>>

-----------------------------------------------------------------------------
CoreAnswers(p) ==
    \/ AdmissionAnswered(p)
    \/ NativeReadyAnswered(p)
    \/ PageReadyAnswered(p)
    \/ CloseAnswered(p)
    \/ NativeClosedAnswered(p)
    \/ CancelAnswered(p)
    \/ FailureAnswered(p)

CallContinues(c) ==
    \/ FlightsLand(c)
    \/ RetireEnds(c)
    \/ ReloadPrepared(c)
    \/ ZoomApplied(c)
    \/ ZoomFails(c)

Next ==
    \/ \E p \in Popups :
          \/ WindowOpen(p) \/ DidCreateWindow(p) \/ RefuseWindow(p)
          \/ WindowCloses(p) \/ WindowClosed(p) \/ LoadFails(p) \/ LoadFinishes(p)
          \/ TaskStarts(p) \/ CoreAnswers(p) \/ ShowFails(p) \/ StepFails(p)
    \/ \E c \in Calls :
          \/ Retire(c) \/ Move(c) \/ Reload(c) \/ Zoom(c) \/ Dispose(c)
          \/ CallContinues(c) \/ ReloadReleased(c)

Spec == Init /\ [][Next]_vars

\* Promises that have settled run their continuations, and the Core answers
\* what it is asked.  Nothing makes a window close, a page load or a holder
\* release its lease.
Fairness ==
    /\ \A p \in Popups : WF_vars(TaskStarts(p) \/ CoreAnswers(p))
    /\ \A c \in Calls : WF_vars(CallContinues(c))

FairSpec == Spec /\ Fairness

-----------------------------------------------------------------------------
TypeOK ==
    /\ state \in {"open", "draining", "closed"}
    /\ \A p \in Popups :
          /\ popups[p].state \in {"absent", "allowed", "refused", "admitting",
                                  "nativeReady", "ready", "closing", "terminal"}
          /\ popups[p].core \in {"None", "Admitted", "NativeReady", "Ready", "Closing",
                                 "Ended", "Indeterminate"}
          /\ popups[p].terminal \in {"Pending", "Resolved", "Rejected"}
    /\ \A c \in Calls : calls[c].stage \in
          {"Idle", "Flights", "Records", "Held", "Done", "Failed"}
    /\ retired \subseteq Owners
    /\ moving \in [Owners -> Nat]
    /\ leases \subseteq Calls
    /\ zoomLease \subseteq Calls

\* Once the retirement of an owner or dispose has returned without an error, no
\* popup of the owner (of anyone) is left, and none comes back.
LeavesNoPopup ==
    LET alive(c) == {p \in Popups : /\ popups[p].native = "Alive"
                                    /\ KindOf[c] = "Dispose" \/ OwnerOf[p] = OwnerOf[c]}
    IN  \A c \in Calls :
           (KindOf[c] \in {"Retire", "Dispose"} /\ calls[c].stage = "Done") => alive(c) = {}

\* When the retirement of an owner's popups for a move returns without an
\* error, none is left.
MoveLeavesNoPopup ==
    [][\A c \in Calls :
          (KindOf[c] = "Move" /\ calls[c].stage = "Records" /\ calls'[c].stage = "Done") =>
             \A p \in Owned(OwnerOf[c]) : popups'[p].native # "Alive"]_vars

\* While a reload holds its lease no popup of the owner is being admitted.
ReloadKeepsAdmissionsOut ==
    \A c \in leases : calls[c].stage = "Held" =>
        ~\E p \in Owned(OwnerOf[c]) : popups[p].state = "admitting"

\* What a call fenced off stays out, until the call (or for good, if it retired the
\* owner) gives the fence up.
FencesKeepPopupsOut == LeavesNoPopup /\ ReloadKeepsAdmissionsOut

\* Between zoom transactions, a popup on the screen has the factor of its
\* window, unless it was created while one of them held the lease, or would not
\* take its former factor when one was rolled back.
ZoomFollowsWindow ==
    zoomLease = {} => \A p \in Popups :
        (popups[p].shown /\ ~popups[p].astray) => popups[p].zoom = factor

\* A window that has ended, whatever its popup was doing, ends the popup.
\* (Windows and calls are bounded, so "always again" is "in the end".)
ClosedIsReported ==
    []<>(\A p \in Popups : popups[p].native = "Destroyed" =>
                               popups[p].state \in {"terminal", "refused"})

\* Every call returns: no order of closes, failures and answers of the Core
\* leaves a caller waiting for a popup that nothing will end.
CallsReturn == []<>(\A c \in Calls : calls[c].stage \notin {"Flights", "Records"})
=============================================================================
