---------------------------- MODULE RuntimeLocks ----------------------------
(***************************************************************************)
(* How the operations of the Core compose its locks: the lanes of native   *)
(* hosts (appkit_event_sequence), the leases of roles (browser_operations),*)
(* the sequence of the embedded windows, that of the embedded runtime and  *)
(* that of the workspace appearance.  An operation takes and releases them *)
(* as its code does; what it does in between is left out, except that an   *)
(* error may end it, and release what it holds, at any step.  Each of the  *)
(* locks keeps the promise of ScopedLock.                                  *)
(***************************************************************************)
EXTENDS Naturals, Sequences

CONSTANTS
    Operations,     \* threads that run an operation each, and then another
    Windows,        \* native hosts: a lane each
    Roles,          \* roles: a lease each
    RolesIn,        \* [Windows -> SUBSET Roles]: the roles of the tabs of a window
    Appearance      \* whether the appearance of workspaces is changed, too

VARIABLES
    flow,       \* operation -> the steps of it that are left
    held,       \* operation -> the locks it holds
    ahead       \* operation that waits -> those that asked before it and wait still

vars == <<flow, held, ahead>>

Lanes(W) == {<<"lane", w>> : w \in W}
Leases(R) == {<<"lease", r>> : r \in R}
Window == {<<"window">>}
Runtime == {<<"runtime">>}
Workspaces == {<<"appearance">>}

Take(locks) == [asks |-> locks, drops |-> {}]
Release(locks) == [asks |-> {}, drops |-> locks]

-----------------------------------------------------------------------------
(* The operations.  What one holds at its end it releases there. *)

\* stop_embedded_role, stop_embedded_workspace: the native surfaces are destroyed
\* between the two sections in the runtime sequence, under the leases alone.
Stop(R) == <<Take(Leases(R)), Take(Runtime), Release(Runtime), Take(Runtime)>>

\* The claim of a role slot: admission, the end of the owner, and the claim.
TakeOver(r) ==
    <<Take(Leases({r})), Take(Runtime), Release(Runtime), Take(Runtime), Release(Runtime),
      Take(Runtime)>>

\* apply_embedded_runtime_command, register_embedded_window
WindowCommand == <<Take(Window), Take(Runtime)>>

\* The requests of the user interface that change one window.
UiAction == <<Take(Runtime)>>

\* Mutant: a close is admitted in the runtime before the window sequence is taken.
CloseInRuntime(w) ==
    <<Take(Leases(RolesIn[w])), Take(Runtime), Take(Window), Release(Window \cup Runtime)>>

\* stop_embedded_window: admit_embedded_window_close, then the native surfaces
\* are destroyed under the leases.
CloseWindow(w) ==
    <<Take(Leases(RolesIn[w])), Take(Window), Take(Runtime), Release(Window \cup Runtime)>>

\* handle_appkit_runtime_event: the window is closed by its user, or because the
\* native host has failed to apply a projection.
HostEvent(w) == <<Take(Lanes({w}))>> \o CloseWindow(w)

\* A tab is moved from window v to window w, or within one: only the kernel is called,
\* unless the native host fails to apply the projection and the windows are closed for it.
HostMove(v, w) ==
    <<Take(Lanes({v, w}))>> \o CloseWindow(v) \o <<Release(Leases(RolesIn[v]))>> \o CloseWindow(w)

\* A tab is stopped: apply_appkit_stop leaves the lane first.
HostStop(w) == <<Take(Lanes({w})), Release(Lanes({w}))>> \o Stop(RolesIn[w])

\* replace_game_browser_settings, patch_game_browser_settings on macOS: the
\* projection takes the lanes of the windows, and if the native host fails to apply
\* it they are closed (here: one of them), all of it in the runtime sequence.
ProjectAppearance(w) ==
    <<Take(Workspaces), Take(Runtime), Take(Lanes(Windows)),
      Take(Leases(RolesIn[w])), Take(Window), Release(Window)>>

Flows ==
    {WindowCommand, UiAction}
        \cup {Stop(R) : R \in SUBSET Roles} \cup {TakeOver(r) : r \in Roles}
        \cup {CloseWindow(w) : w \in Windows} \cup {HostEvent(w) : w \in Windows}
        \cup {HostMove(v, w) : v \in Windows, w \in Windows}
        \cup {HostStop(w) : w \in Windows}
        \cup {ProjectAppearance(w) : w \in IF Appearance THEN Windows ELSE {}}

-----------------------------------------------------------------------------
Waiting == DOMAIN ahead
Asks(o) == Head(flow[o]).asks

\* o waits for p: p holds a lock that o asks for, or asked for one of them earlier.
WaitsFor(o, p) ==
    \/ held[p] \cap Asks(o) # {}
    \/ p \in ahead[o] /\ Asks(p) \cap Asks(o) # {}

Init ==
    /\ flow = [o \in Operations |-> <<>>]
    /\ held = [o \in Operations |-> {}]
    /\ ahead = [o \in {} |-> {}]

Queues(o) ==
    ahead' = [p \in Waiting \cup {o} |-> IF p = o THEN Waiting ELSE ahead[p]]

\* Each of the operations begins with a lock, which it asks for.
Begin(o) ==
    /\ flow[o] = <<>>
    /\ held[o] = {}
    /\ \E f \in Flows : flow' = [flow EXCEPT ![o] = f]
    /\ Queues(o)
    /\ UNCHANGED held

\* acquire, of several roles or lanes at once.
Ask(o) ==
    /\ flow[o] # <<>>
    /\ o \notin Waiting
    /\ Head(flow[o]).drops = {}
    /\ Queues(o)
    /\ UNCHANGED <<flow, held>>

Grant(o) ==
    /\ o \in Waiting
    /\ \A p \in Operations \ {o} : ~WaitsFor(o, p)
    /\ ahead' = [p \in Waiting \ {o} |-> ahead[p] \ {o}]
    /\ held' = [held EXCEPT ![o] = @ \cup Asks(o)]
    /\ flow' = [flow EXCEPT ![o] = Tail(@)]

\* The permits of a block are dropped.
Drop(o) ==
    /\ flow[o] # <<>>
    /\ Head(flow[o]).drops # {}
    /\ held' = [held EXCEPT ![o] = @ \ Head(flow[o]).drops]
    /\ flow' = [flow EXCEPT ![o] = Tail(@)]
    /\ UNCHANGED ahead

\* It returns, with or without an error, and drops what it still holds.
Return(o) ==
    /\ o \notin Waiting
    /\ flow[o] # <<>> \/ held[o] # {}
    /\ flow' = [flow EXCEPT ![o] = <<>>]
    /\ held' = [held EXCEPT ![o] = {}]
    /\ UNCHANGED ahead

Next == \E o \in Operations : Begin(o) \/ Ask(o) \/ Grant(o) \/ Drop(o) \/ Return(o)

Spec == Init /\ [][Next]_vars

-----------------------------------------------------------------------------
\* No operations wait for each other in a circle, where none of them could ever go on:
\* whatever is ordered by these locks is only ordered, never blocked for good.  No
\* wait for a lock has a deadline: an EventBound operation, as a close or a change of
\* the appearance is, "completes from the exact authoritative event, cancellation,
\* supersede, actor stop, or event-stream failure" (docs/event-topology.md:27), and
\* none of these reaches a thread that waits for a sequence.
NoCircularWait ==
    \A S \in (SUBSET Waiting) \ {{}} :
        \E o \in S : \A p \in S : ~WaitsFor(o, p)
=============================================================================
