------------------------- MODULE RuntimeKernelProofs -------------------------
(***************************************************************************)
(* Safety of RuntimeKernel, for any windows, tabs, operations, attempts,   *)
(* bounds and layouts: the kernel's audit passes after every intent, the   *)
(* fence of a closed tab lasts as long as its close, a launch follows its  *)
(* tab, every outcome is reported once, a closed tab stays closed and the  *)
(* commits to a window are ordered.                                        *)
(***************************************************************************)
EXTENDS RuntimeKernel, TLAPS

\* The kernel knows the ids it has used, and has reported on no other.
KnownIds ==
    /\ DOMAIN operations \subseteq applied
    /\ \A o \in OpIds \ DOMAIN operations : told[o] = <<>>

\* A fence names the close of its tab.  Nothing else is pending on the tab, and
\* once a native event has ended the close, its surface is gone.
FenceNamesClose ==
    \A t \in DOMAIN tombstones :
        LET o == tombstones[t].op IN
        /\ operations[o].kind = "closeTab"
        /\ operations[o].tab = t
        /\ PendingOf(t) \subseteq {o}
        /\ operations[o].cause = "Native" =>
              t \notin DOMAIN surfaces /\ operations[o].phase \in {"Completed", "Failed"}

\* A surface that is torn down waits for no launch.
ClosingAwaitsClose ==
    \A t \in DOMAIN surfaces :
        surfaces[t].lifecycle = "Closing" =>
            \A o \in PendingOf(t) : operations[o].kind = "closeTab"

Inv ==
    /\ TypeOK
    /\ AuditPasses
    /\ FenceFollowsClose
    /\ OutcomeReportedOnce
    /\ ActivationFollowsTab
    /\ KnownIds
    /\ FenceNamesClose
    /\ ClosingAwaitsClose

-----------------------------------------------------------------------------
(* Maps *)

LEMMA MapElement ==
    ASSUME NEW m, NEW K, NEW V, IsMap(m, K, V), NEW x \in DOMAIN m
    PROVE  x \in K /\ m[x] \in V
  BY DEF IsMap

LEMMA PutIsMap ==
    ASSUME NEW m, NEW K, NEW V, IsMap(m, K, V), NEW k \in K, NEW v \in V
    PROVE  IsMap(Put(m, k, v), K, V)
  BY DEF Put, IsMap

LEMMA WithoutIsMap ==
    ASSUME NEW m, NEW K, NEW V, IsMap(m, K, V), NEW S
    PROVE  IsMap(Without(m, S), K, V)
  BY DEF Without, IsMap

\* A function of which every element has its type is a map.
LEMMA MapIntro ==
    ASSUME NEW m, NEW K, NEW V, m = [x \in DOMAIN m |-> m[x]],
           \A x \in DOMAIN m : x \in K /\ m[x] \in V
    PROVE  IsMap(m, K, V)
  BY DEF IsMap

LEMMA UpdateIsMap ==
    ASSUME NEW m, NEW K, NEW V, IsMap(m, K, V), NEW k \in DOMAIN m, NEW v \in V
    PROVE  /\ IsMap([m EXCEPT ![k] = v], K, V)
           /\ DOMAIN [m EXCEPT ![k] = v] = DOMAIN m
           /\ [m EXCEPT ![k] = v][k] = v
           /\ \A x \in DOMAIN m \ {k} : [m EXCEPT ![k] = v][x] = m[x]
  BY DEF IsMap

-----------------------------------------------------------------------------
(* Types *)

LEMMA WindowType ==
    ASSUME TypeOK, NEW w \in DOMAIN windows
    PROVE  /\ w \in WindowIds
           /\ windows[w] \in Window
           /\ windows[w].tabs \subseteq Tabs
           /\ windows[w].hidden \subseteq Tabs
           /\ windows[w].selected \in Tabs \cup {NoTab}
           /\ windows[w].generation \in Generations
           /\ windows[w].ui \in Numbers
           /\ windows[w].placement \in Numbers
  <1>1. w \in WindowIds /\ windows[w] \in Window
    BY MapElement DEF TypeOK
  <1> QED
    BY <1>1 DEF Window

LEMMA OperationTypes ==
    ASSUME TypeOK, NEW o \in DOMAIN operations
    PROVE  /\ o \in OpIds
           /\ operations[o] \in Operation
           /\ operations[o].tab \in Tabs
           /\ operations[o].generation \in Generations
           /\ Ended(operations[o]) <=> operations[o].phase # "Pending"
  <1>1. o \in OpIds /\ operations[o] \in Operation
    BY MapElement DEF TypeOK
  <1> QED
    BY <1>1 DEF Operation, Ended, Terminal

LEMMA SurfaceType ==
    ASSUME TypeOK, NEW t \in DOMAIN surfaces
    PROVE  t \in Tabs /\ surfaces[t] \in Surface /\ surfaces[t].op \in OpIds
  <1>1. t \in Tabs /\ surfaces[t] \in Surface
    BY MapElement DEF TypeOK
  <1> QED
    BY <1>1 DEF Surface

LEMMA ActivationType ==
    ASSUME TypeOK, NEW t \in DOMAIN activations
    PROVE  /\ t \in Tabs
           /\ activations[t] \in Activation
           /\ activations[t].owner \in WindowIds
           /\ activations[t].generation \in Generations
           /\ activations[t].phase \in ActivationPhase
  <1>1. t \in Tabs /\ activations[t] \in Activation
    BY MapElement DEF TypeOK
  <1> QED
    BY <1>1 DEF Activation

LEMMA NumbersAreNat == Generations \subseteq Nat /\ Numbers \subseteq Nat
  BY NumberAssumption DEF Generations, Numbers

LEMMA WindowEdits ==
    ASSUME NEW window \in Window, NEW t \in Tabs
    PROVE  /\ Select(window, t) \in Window
           /\ Select(window, t).tabs = window.tabs
           /\ Select(window, t).hidden = window.hidden \ {t}
           /\ Select(window, t).selected = t
           /\ RemoveTab(window, t) \in Window
           /\ RemoveTab(window, t).tabs = window.tabs \ {t}
           /\ RemoveTab(window, t).hidden = window.hidden \ {t}
           /\ RemoveTab(window, t).selected = IF window.selected = t THEN NoTab ELSE window.selected
           /\ Select(window, t).generation = window.generation
           /\ RemoveTab(window, t).generation = window.generation
           /\ Select(window, t).ui = window.ui
           /\ RemoveTab(window, t).ui = window.ui
           /\ Select(window, t).placement = window.placement
           /\ RemoveTab(window, t).placement = window.placement
  BY DEF Select, RemoveTab, Window

\* What cancelling does to the operations.
LEMMA CancelAllFacts ==
    ASSUME TypeOK, NEW S, NEW cause \in Cause
    PROVE  /\ IsMap(CancelAll(S, cause), OpIds, Operation)
           /\ DOMAIN CancelAll(S, cause) = DOMAIN operations
           /\ \A o \in DOMAIN operations :
                 /\ o \notin S => CancelAll(S, cause)[o] = operations[o]
                 /\ CancelAll(S, cause)[o].kind = operations[o].kind
                 /\ CancelAll(S, cause)[o].tab = operations[o].tab
                 /\ CancelAll(S, cause)[o].attempt = operations[o].attempt
                 /\ CancelAll(S, cause)[o].generation = operations[o].generation
                 /\ o \in S => /\ CancelAll(S, cause)[o].phase = "Cancelled"
                               /\ CancelAll(S, cause)[o].cause = cause
  <1>1. \A o \in DOMAIN operations : o \in OpIds /\ operations[o] \in Operation
    BY OperationTypes
  <1>2. \A o \in DOMAIN operations :
           [operations[o] EXCEPT !.phase = "Cancelled", !.cause = cause] \in Operation
    BY <1>1 DEF Operation, Terminal
  <1>3. \A o \in DOMAIN operations : CancelAll(S, cause)[o] \in Operation
    BY <1>1, <1>2 DEF CancelAll
  <1>4. IsMap(CancelAll(S, cause), OpIds, Operation)
    BY <1>1, <1>3 DEF CancelAll, IsMap
  <1>5. \A o \in DOMAIN operations :
           LET c == [operations[o] EXCEPT !.phase = "Cancelled", !.cause = cause] IN
           /\ c.kind = operations[o].kind /\ c.tab = operations[o].tab
           /\ c.attempt = operations[o].attempt /\ c.generation = operations[o].generation
           /\ c.phase = "Cancelled" /\ c.cause = cause
    BY <1>1 DEF Operation
  <1> QED
    BY <1>4, <1>5 DEF CancelAll

\* What telling does to the reports.
LEMMA TellFacts ==
    ASSUME TypeOK, NEW S, NEW phase \in Terminal, NEW cause \in Cause, Tell(S, phase, cause)
    PROVE  /\ told' \in [OpIds -> Seq(Outcome)]
           /\ \A o \in OpIds : o \notin S => told'[o] = told[o]
           /\ \A o \in OpIds : o \in S /\ told[o] = <<>>
                                  => told'[o] = <<[phase |-> phase, cause |-> cause]>>
  <1>1. [phase |-> phase, cause |-> cause] \in Outcome
    BY DEF Outcome
  <1>2. told \in [OpIds -> Seq(Outcome)]
    BY DEF TypeOK
  <1> DEFINE outcome == [phase |-> phase, cause |-> cause]
  <1> HIDE DEF outcome
  <1>3. \A o \in OpIds : Append(told[o], outcome) \in Seq(Outcome)
    BY <1>1, <1>2 DEF outcome
  <1>4. told' = [o \in OpIds |-> IF o \in S THEN Append(told[o], outcome) ELSE told[o]]
    BY DEF Tell, outcome
  <1>5. Append(<<>>, outcome) = <<outcome>>
    OBVIOUS
  <1> QED
    BY <1>2, <1>3, <1>4, <1>5 DEF outcome

-----------------------------------------------------------------------------
(* The initial state, and steps that leave the operations alone *)

LEMMA InitInv == Init => Inv
  <1> SUFFICES ASSUME Init PROVE Inv
    OBVIOUS
  <1> USE DEF Init, Empty
  <1>1. TypeOK
    <2>1. told \in [OpIds -> Seq(Outcome)]
      OBVIOUS
    <2> QED
      BY <2>1 DEF TypeOK, IsMap
  <1>2. LiveTabs(windows) = {}
    BY DEF LiveTabs
  <1>3. AuditPasses
    BY <1>2 DEF AuditPasses, Unique
  <1> QED
    BY <1>1, <1>3 DEF Inv, FenceFollowsClose, PendingCloseIsFenced, RetiredWindowRetiresFence,
       OutcomeReportedOnce, ActivationFollowsTab, KnownIds, FenceNamesClose, ClosingAwaitsClose

LEMMA LiveTab ==
    ASSUME NEW ws, NEW t
    PROVE  t \in LiveTabs(ws) <=> \E w \in DOMAIN ws : t \in ws[w].tabs
  BY DEF LiveTabs

\* A step that leaves the operations and their fences alone, closes no window
\* and at most drops surfaces.
LEMMA OperationsAlone ==
    ASSUME Inv, UNCHANGED <<operations, tombstones, told>>,
           \A t \in DOMAIN surfaces' : t \in DOMAIN surfaces /\ surfaces'[t] = surfaces[t],
           applied \subseteq applied', DOMAIN windows \subseteq DOMAIN windows',
           TypeOK', AuditPasses', ActivationFollowsTab'
    PROVE  Inv'
  <1>1. FenceFollowsClose'
    <2>1. PendingCloseIsFenced'
      BY DEF Inv, FenceFollowsClose, PendingCloseIsFenced, Fenced
    <2>2. RetiredWindowRetiresFence'
      BY DEF Inv, FenceFollowsClose, RetiredWindowRetiresFence, Live
    <2> QED
      BY <2>1, <2>2 DEF FenceFollowsClose
  <1>2. OutcomeReportedOnce'
    BY DEF Inv, OutcomeReportedOnce
  <1>3. KnownIds'
    BY DEF Inv, KnownIds
  <1>4. FenceNamesClose'
    BY DEF Inv, FenceNamesClose, PendingOf
  <1>5. ClosingAwaitsClose'
    BY DEF Inv, ClosingAwaitsClose, PendingOf
  <1> QED
    BY <1>1, <1>2, <1>3, <1>4, <1>5 DEF Inv

\* A window that is created, or changes anything but its tabs.
LEMMA WindowPut ==
    ASSUME Inv, NEW w \in WindowIds, NEW r \in Window, windows' = Put(windows, w, r),
           r.tabs = IF Live(w) THEN windows[w].tabs ELSE {},
           r.hidden \subseteq r.tabs,
           r.selected \in (r.tabs \ r.hidden) \cup {NoTab}
    PROVE  /\ IsMap(windows', WindowIds, Window)
           /\ DOMAIN windows' = DOMAIN windows \cup {w}
           /\ windows'[w] = r
           /\ \A v \in DOMAIN windows : v # w => windows'[v] = windows[v]
           /\ Unique(windows')
           /\ LiveTabs(windows') = LiveTabs(windows)
           /\ \A v \in DOMAIN windows' :
                 /\ windows'[v].hidden \subseteq windows'[v].tabs
                 /\ windows'[v].selected \in (windows'[v].tabs \ windows'[v].hidden) \cup {NoTab}
  <1>1. IsMap(windows', WindowIds, Window)
    BY PutIsMap DEF Inv, TypeOK
  <1>2. /\ DOMAIN windows' = DOMAIN windows \cup {w}
        /\ windows'[w] = r
        /\ \A v \in DOMAIN windows : v # w => windows'[v] = windows[v]
    BY DEF Put
  <1>3. \A v \in DOMAIN windows' : windows'[v].tabs = IF v \in DOMAIN windows THEN windows[v].tabs ELSE {}
    BY <1>2 DEF Live
  <1>4. Unique(windows')
    BY <1>2, <1>3 DEF Inv, AuditPasses, Unique
  <1>5. LiveTabs(windows') = LiveTabs(windows)
    BY <1>2, <1>3 DEF LiveTabs
  <1>6. ASSUME NEW v \in DOMAIN windows'
        PROVE  /\ windows'[v].hidden \subseteq windows'[v].tabs
               /\ windows'[v].selected \in (windows'[v].tabs \ windows'[v].hidden) \cup {NoTab}
    <2>1. CASE v = w
      BY <2>1, <1>2
    <2>2. CASE v # w
      BY <2>2, <1>2 DEF Inv, AuditPasses
    <2> QED
      BY <2>1, <2>2
  <1> QED
    BY <1>1, <1>2, <1>4, <1>5, <1>6

\* A created or changed window keeps the audit, when no other map changes its keys.
LEMMA WindowPutAudit ==
    ASSUME Inv, NEW w \in WindowIds, NEW r \in Window, windows' = Put(windows, w, r),
           r.tabs = IF Live(w) THEN windows[w].tabs ELSE {},
           r.hidden \subseteq r.tabs,
           r.selected \in (r.tabs \ r.hidden) \cup {NoTab},
           UNCHANGED <<operations, surfaces, tombstones>>,
           DOMAIN activations' = DOMAIN activations
    PROVE  AuditPasses'
  <1>1. /\ Unique(windows')
        /\ LiveTabs(windows') = LiveTabs(windows)
        /\ \A v \in DOMAIN windows' :
              /\ windows'[v].hidden \subseteq windows'[v].tabs
              /\ windows'[v].selected \in (windows'[v].tabs \ windows'[v].hidden) \cup {NoTab}
    BY WindowPut
  <1> QED
    BY <1>1 DEF Inv, AuditPasses

LEMMA DefaultFacts ==
    /\ DefaultWindow \in Window
    /\ DefaultWindow.tabs = {}
    /\ DefaultWindow.hidden = {}
    /\ DefaultWindow.selected = NoTab
  <1>1. 0 \in Generations /\ 0 \in Numbers
    BY NumberAssumption DEF Generations, Numbers
  <1> QED
    BY <1>1 DEF DefaultWindow, Window

LEMMA EnsureWindowInv ==
    ASSUME Inv, NEW w \in WindowIds, EnsureWindow(w)
    PROVE  Inv'
  <1> USE DEF EnsureWindow
  <1>1. DefaultWindow \in Window
    BY DefaultFacts
  <1>2. DefaultWindow.tabs = {} /\ DefaultWindow.hidden = {} /\ DefaultWindow.selected = NoTab
    BY DefaultFacts
  <1>3. /\ IsMap(windows', WindowIds, Window)
        /\ DOMAIN windows' = DOMAIN windows \cup {w}
        /\ \A v \in DOMAIN windows : v # w => windows'[v] = windows[v]
    BY <1>1, <1>2, WindowPut
  <1>4. AuditPasses'
    BY <1>1, <1>2, WindowPutAudit
  <1>5. TypeOK'
    BY <1>3 DEF Inv, TypeOK
  <1>6. ActivationFollowsTab'
    <2> SUFFICES ASSUME NEW t \in DOMAIN activations
                 PROVE  FollowsItsTab(t)' /\ WaitsForItsLaunch(t)'
      BY DEF ActivationFollowsTab
    <2>1. FollowsItsTab(t)'
      BY <1>3 DEF Inv, ActivationFollowsTab, FollowsItsTab, Live
    <2>2. WaitsForItsLaunch(t)'
      BY DEF Inv, ActivationFollowsTab, WaitsForItsLaunch
    <2> QED
      BY <2>1, <2>2
  <1> QED
    BY <1>3, <1>4, <1>5, <1>6, OperationsAlone

\* A window, live or not yet, as an intent finds it.
Current(w) == IF Live(w) THEN windows[w] ELSE DefaultWindow

At(w, g) == [Current(w) EXCEPT !.generation = g]
Placed(w, g, n) == [Current(w) EXCEPT !.generation = g, !.placement = n]

LEMMA CurrentFacts ==
    ASSUME Inv, NEW w \in WindowIds
    PROVE  /\ Current(w) \in Window
           /\ Current(w).tabs = IF Live(w) THEN windows[w].tabs ELSE {}
           /\ Current(w).hidden \subseteq Current(w).tabs
           /\ Current(w).selected \in (Current(w).tabs \ Current(w).hidden) \cup {NoTab}
  <1>1. Current(w) \in Window
    BY WindowType, DefaultFacts DEF Inv, Current, Live
  <1>2. Current(w).tabs = IF Live(w) THEN windows[w].tabs ELSE {}
    BY DefaultFacts DEF Current
  <1>3. /\ Current(w).hidden \subseteq Current(w).tabs
        /\ Current(w).selected \in (Current(w).tabs \ Current(w).hidden) \cup {NoTab}
    BY DefaultFacts DEF Current, Live, Inv, AuditPasses
  <1> QED
    BY <1>1, <1>2, <1>3

LEMMA AtFacts ==
    ASSUME Inv, NEW w \in WindowIds, NEW g \in Generations
    PROVE  /\ At(w, g) \in Window
           /\ At(w, g).generation = g
           /\ At(w, g).tabs = IF Live(w) THEN windows[w].tabs ELSE {}
           /\ At(w, g).hidden \subseteq At(w, g).tabs
           /\ At(w, g).selected \in (At(w, g).tabs \ At(w, g).hidden) \cup {NoTab}
  BY CurrentFacts DEF At, Window

LEMMA PlacedFacts ==
    ASSUME Inv, NEW w \in WindowIds, NEW g \in Generations, NEW n \in Numbers
    PROVE  /\ Placed(w, g, n) \in Window
           /\ Placed(w, g, n).generation = g
           /\ Placed(w, g, n).placement = n
           /\ Placed(w, g, n).ui = Current(w).ui
           /\ Placed(w, g, n).tabs = IF Live(w) THEN windows[w].tabs ELSE {}
           /\ Placed(w, g, n).hidden \subseteq Placed(w, g, n).tabs
           /\ Placed(w, g, n).selected \in
                 (Placed(w, g, n).tabs \ Placed(w, g, n).hidden) \cup {NoTab}
  BY CurrentFacts DEF Placed, Window

LEMMA ZeroFacts == 0 \in Generations /\ 0 \in Numbers
  BY NumberAssumption DEF Generations, Numbers

\* The windows that hold a tab are one.
LEMMA OneHolder ==
    ASSUME NEW ws, Unique(ws), NEW v \in DOMAIN ws, NEW w \in DOMAIN ws, NEW t,
           t \in ws[v].tabs, t \in ws[w].tabs
    PROVE  v = w
  BY DEF Unique

LEMMA RefenceInv ==
    ASSUME Inv, NEW w \in WindowIds, NEW g \in Generations, NEW r \in Window,
           windows' = Put(windows, w, r), r.generation = g,
           r.tabs = IF Live(w) THEN windows[w].tabs ELSE {},
           r.hidden \subseteq r.tabs,
           r.selected \in (r.tabs \ r.hidden) \cup {NoTab},
           activations' = Refence(w, g),
           UNCHANGED <<operations, applied, surfaces, tombstones, drag, told>>
    PROVE  Inv'
  <1>1. /\ IsMap(windows', WindowIds, Window)
        /\ DOMAIN windows' = DOMAIN windows \cup {w}
        /\ windows'[w] = r
        /\ \A v \in DOMAIN windows : v # w => windows'[v] = windows[v]
    BY WindowPut
  <1>2. DOMAIN activations' = DOMAIN activations
    BY DEF Refence
  <1>3. AuditPasses'
    BY <1>2, WindowPutAudit
  <1>4. ASSUME NEW t \in DOMAIN activations
        PROVE  /\ t \in Tabs /\ activations'[t] \in Activation
               /\ activations'[t] = activations[t] \/ activations'[t].native = NoOp
               /\ FollowsItsTab(t)'
    <2>1. /\ t \in Tabs
          /\ activations[t] \in Activation
          /\ FollowsItsTab(t)
      BY ActivationType DEF Inv, ActivationFollowsTab
    <2>2. CASE ~Live(w) \/ t \notin windows[w].tabs
      <3>1. activations'[t] = activations[t]
        BY <2>2 DEF Refence
      <3>2. activations[t].owner # w
        BY <2>1, <2>2 DEF FollowsItsTab
      <3> QED
        BY <2>1, <3>1, <3>2, <1>1 DEF FollowsItsTab, Live
    <2>3. CASE Live(w) /\ t \in windows[w].tabs /\ activations[t].generation = g
      <3>1. activations'[t] = activations[t]
        BY <2>3 DEF Refence
      <3>2. activations[t].owner = w
        BY <2>1, <2>3, OneHolder DEF FollowsItsTab, Live, Inv, AuditPasses
      <3>3. g <= g
        BY NumbersAreNat
      <3> QED
        BY <2>1, <2>3, <3>1, <3>2, <3>3, <1>1 DEF FollowsItsTab, Live
    <2>4. CASE Live(w) /\ t \in windows[w].tabs /\ activations[t].generation # g
      <3>1. activations'[t] = [activations[t] EXCEPT
                !.phase = IF @ \in InProgress THEN "Failed" ELSE @,
                !.native = NoOp, !.owner = w, !.generation = g]
        BY <2>4 DEF Refence
      <3>2. /\ activations'[t].native = NoOp
            /\ activations'[t].owner = w
            /\ activations'[t].generation = g
            /\ activations'[t] \in Activation
        BY <2>1, <3>1 DEF Activation, ActivationPhase
      <3>3. g <= g
        BY NumbersAreNat
      <3> QED
        BY <2>1, <2>4, <3>2, <3>3, <1>1 DEF FollowsItsTab, Live
    <2> QED
      BY <2>2, <2>3, <2>4
  <1>5. IsMap(activations', Tabs, Activation)
    <2>1. activations' = [t \in DOMAIN activations' |-> activations'[t]]
      BY DEF Refence
    <2> QED
      BY <1>2, <1>4, <2>1, MapIntro
  <1>6. TypeOK'
    BY <1>1, <1>5 DEF Inv, TypeOK
  <1>7. ActivationFollowsTab'
    <2>1. \A t \in DOMAIN activations : WaitsForItsLaunch(t)'
      BY <1>4 DEF Inv, ActivationFollowsTab, WaitsForItsLaunch
    <2> QED
      BY <1>2, <1>4, <2>1 DEF ActivationFollowsTab
  <1> QED
    BY <1>1, <1>3, <1>6, <1>7, OperationsAlone

LEMMA SetWindowGenerationInv ==
    ASSUME Inv, NEW w \in WindowIds, NEW g \in Generations, SetWindowGeneration(w, g)
    PROVE  Inv'
  <1> DEFINE r == Placed(w, g, 0)
  <1>1. windows' = Put(windows, w, r)
    BY DEF SetWindowGeneration, Current, Placed
  <1>2. /\ r \in Window /\ r.generation = g
        /\ r.tabs = IF Live(w) THEN windows[w].tabs ELSE {}
        /\ r.hidden \subseteq r.tabs
        /\ r.selected \in (r.tabs \ r.hidden) \cup {NoTab}
    BY PlacedFacts, ZeroFacts
  <1>3. /\ activations' = Refence(w, g)
        /\ UNCHANGED <<operations, applied, surfaces, tombstones, drag, told>>
    BY DEF SetWindowGeneration
  <1> HIDE DEF r
  <1> QED
    BY <1>1, <1>2, <1>3, RefenceInv

LEMMA InitializeWindowContextInv ==
    ASSUME Inv, NEW w \in WindowIds, NEW g \in Generations, InitializeWindowContext(w, g)
    PROVE  Inv'
  <1> DEFINE r == IF ~Live(w) THEN At(w, g)
                  ELSE IF g > windows[w].generation THEN Placed(w, g, 0) ELSE Current(w)
  <1>1. windows' = Put(windows, w, r)
    BY DEF InitializeWindowContext, Current, At, Placed
  <1>2. Live(w) /\ ~(g > windows[w].generation) => Current(w).generation = g
    <2> SUFFICES ASSUME Live(w), ~(g > windows[w].generation) PROVE windows[w].generation = g
      BY DEF Current
    <2>1. g >= windows[w].generation
      BY DEF InitializeWindowContext
    <2>2. windows[w].generation \in Nat /\ g \in Nat
      BY WindowType, NumbersAreNat DEF Live, Inv
    <2> QED
      BY <2>1, <2>2
  <1>3. /\ r \in Window /\ r.generation = g
        /\ r.tabs = IF Live(w) THEN windows[w].tabs ELSE {}
        /\ r.hidden \subseteq r.tabs
        /\ r.selected \in (r.tabs \ r.hidden) \cup {NoTab}
    <2>1. CASE ~Live(w)
      BY <2>1, AtFacts
    <2>2. CASE Live(w) /\ g > windows[w].generation
      BY <2>2, PlacedFacts, ZeroFacts
    <2>3. CASE Live(w) /\ ~(g > windows[w].generation)
      BY <1>2, <2>3, CurrentFacts
    <2> QED
      BY <2>1, <2>2, <2>3
  <1>4. /\ activations' = Refence(w, g)
        /\ UNCHANGED <<operations, applied, surfaces, tombstones, drag, told>>
    BY DEF InitializeWindowContext
  <1> HIDE DEF r
  <1> QED
    BY <1>1, <1>3, <1>4, RefenceInv

LEMMA CommitPlacementInv ==
    ASSUME Inv, NEW w \in WindowIds, NEW g \in Generations, NEW n \in Numbers,
           CommitPlacement(w, g, n)
    PROVE  Inv'
  <1> DEFINE r == Placed(w, g, n)
  <1>1. /\ windows' = Put(windows, w, r)
        /\ g > Current(w).generation \/ g = Current(w).generation
        /\ UNCHANGED <<operations, applied, surfaces, tombstones, activations, drag, told>>
    BY DEF CommitPlacement, Current, Placed
  <1>2. /\ r \in Window /\ r.generation = g
        /\ r.tabs = IF Live(w) THEN windows[w].tabs ELSE {}
        /\ r.hidden \subseteq r.tabs
        /\ r.selected \in (r.tabs \ r.hidden) \cup {NoTab}
    BY PlacedFacts
  <1> HIDE DEF r
  <1>3. /\ IsMap(windows', WindowIds, Window)
        /\ DOMAIN windows' = DOMAIN windows \cup {w}
        /\ windows'[w] = r
        /\ \A v \in DOMAIN windows : v # w => windows'[v] = windows[v]
    BY <1>1, <1>2, WindowPut
  <1>4. AuditPasses'
    BY <1>1, <1>2, WindowPutAudit
  <1>5. TypeOK'
    BY <1>1, <1>3 DEF Inv, TypeOK
  <1>6. ASSUME NEW t \in DOMAIN activations PROVE FollowsItsTab(t)'
    <2>1. FollowsItsTab(t)
      BY DEF Inv, ActivationFollowsTab
    <2>2. CASE activations[t].owner = w
      <3>1. /\ Live(w) /\ t \in windows[w].tabs
            /\ activations[t].generation <= windows[w].generation
        BY <2>1, <2>2 DEF FollowsItsTab
      <3>2. /\ activations[t].generation \in Nat /\ windows[w].generation \in Nat /\ g \in Nat
        BY <3>1, WindowType, ActivationType, NumbersAreNat DEF Live, Inv
      <3>3. activations[t].generation <= g
        BY <1>1, <3>1, <3>2 DEF Current
      <3> QED
        BY <1>1, <1>2, <1>3, <2>2, <3>1, <3>3 DEF FollowsItsTab, Live
    <2>3. CASE activations[t].owner # w
      BY <1>1, <1>3, <2>1, <2>3 DEF FollowsItsTab, Live
    <2> QED
      BY <2>2, <2>3
  <1>7. ActivationFollowsTab'
    <2>1. \A t \in DOMAIN activations : WaitsForItsLaunch(t)'
      BY <1>1 DEF Inv, ActivationFollowsTab, WaitsForItsLaunch
    <2> QED
      BY <1>1, <1>6, <2>1 DEF ActivationFollowsTab
  <1> QED
    BY <1>1, <1>3, <1>4, <1>5, <1>7, OperationsAlone

LEMMA RemoveWindowInv ==
    ASSUME Inv, NEW w \in WindowIds, RemoveWindow(w)
    PROVE  Inv'
  <1>1. /\ windows' = Without(windows, {w})
        /\ activations' = Without(activations, DOMAIN activations \ LiveTabs(windows'))
        /\ tombstones' = Without(tombstones, {t \in DOMAIN tombstones :
                             tombstones[t].window = w /\ SurfaceIsTerminal(t)})
        /\ UNCHANGED <<operations, applied, surfaces, drag, told>>
    BY DEF RemoveWindow
  <1>2. /\ DOMAIN windows' = DOMAIN windows \ {w}
        /\ \A v \in DOMAIN windows' : windows'[v] = windows[v]
    BY <1>1 DEF Without
  <1>3. /\ DOMAIN activations' = DOMAIN activations \cap LiveTabs(windows')
        /\ \A t \in DOMAIN activations' : activations'[t] = activations[t]
    BY <1>1 DEF Without
  <1>4. /\ DOMAIN tombstones' \subseteq DOMAIN tombstones
        /\ \A t \in DOMAIN tombstones' : tombstones'[t] = tombstones[t]
        /\ \A t \in DOMAIN tombstones :
              t \notin DOMAIN tombstones' <=> tombstones[t].window = w /\ SurfaceIsTerminal(t)
    BY <1>1 DEF Without
  <1>5. LiveTabs(windows') \subseteq LiveTabs(windows)
    BY <1>2 DEF LiveTabs
  <1>6. TypeOK'
    BY <1>1, WithoutIsMap DEF Inv, TypeOK
  <1>7. AuditPasses'
    <2>1. Unique(windows')
      BY <1>2 DEF Inv, AuditPasses, Unique
    <2>2. LiveTabs(windows') \cap DOMAIN tombstones' = {}
      BY <1>4, <1>5 DEF Inv, AuditPasses
    <2>3. \A t \in DOMAIN tombstones' :
             /\ tombstones'[t].op \in DOMAIN operations'
             /\ t \in DOMAIN surfaces' => surfaces'[t].lifecycle = "Closing"
      BY <1>1, <1>4 DEF Inv, AuditPasses
    <2>4. \A v \in DOMAIN windows' :
             /\ windows'[v].hidden \subseteq windows'[v].tabs
             /\ windows'[v].selected \in (windows'[v].tabs \ windows'[v].hidden) \cup {NoTab}
      BY <1>2 DEF Inv, AuditPasses
    <2> QED
      BY <1>3, <2>1, <2>2, <2>3, <2>4 DEF AuditPasses
  <1>8. PendingCloseIsFenced'
    <2> SUFFICES ASSUME NEW o \in DOMAIN operations, operations[o].kind = "closeTab",
                        ~Ended(operations[o])
                 PROVE  LET t == operations[o].tab IN
                        /\ t \in DOMAIN tombstones'
                        /\ tombstones'[t].op = o
                        /\ t \in DOMAIN surfaces => surfaces[t].op = o
      BY <1>1 DEF PendingCloseIsFenced, Fenced
    <2> DEFINE t == operations[o].tab
    <2>1. /\ t \in DOMAIN tombstones
          /\ tombstones[t].op = o
          /\ t \in DOMAIN surfaces => surfaces[t].op = o
      BY DEF Inv, FenceFollowsClose, PendingCloseIsFenced, Fenced
    <2>2. ~SurfaceIsTerminal(t)
      BY <2>1 DEF SurfaceIsTerminal, Ended, Terminal
    <2> QED
      BY <2>1, <2>2, <1>4
  <1>9. RetiredWindowRetiresFence'
    <2> SUFFICES ASSUME NEW t \in DOMAIN tombstones', tombstones[t].window \notin DOMAIN windows',
                        operations[tombstones[t].op].cause = "Native"
                 PROVE  FALSE
      BY <1>1, <1>4 DEF RetiredWindowRetiresFence, Live
    <2>1. tombstones[t].window = w
      BY <1>2, <1>4 DEF Inv, FenceFollowsClose, RetiredWindowRetiresFence, Live
    <2>2. SurfaceIsTerminal(t)
      BY <1>4 DEF Inv, FenceNamesClose, SurfaceIsTerminal
    <2> QED
      BY <1>4, <2>1, <2>2
  <1>10. OutcomeReportedOnce' /\ KnownIds'
    BY <1>1 DEF Inv, OutcomeReportedOnce, KnownIds
  <1>11. ActivationFollowsTab'
    <2> SUFFICES ASSUME NEW t \in DOMAIN activations'
                 PROVE  FollowsItsTab(t)' /\ WaitsForItsLaunch(t)'
      BY DEF ActivationFollowsTab
    <2>1. FollowsItsTab(t) /\ WaitsForItsLaunch(t)
      BY <1>3 DEF Inv, ActivationFollowsTab
    <2>2. PICK v \in DOMAIN windows' : t \in windows'[v].tabs
      BY <1>3, LiveTab
    <2>3. activations[t].owner = v
      BY <1>2, <2>1, <2>2, OneHolder DEF FollowsItsTab, Live, Inv, AuditPasses
    <2>4. FollowsItsTab(t)'
      BY <1>2, <1>3, <2>1, <2>2, <2>3 DEF FollowsItsTab, Live
    <2>5. WaitsForItsLaunch(t)'
      BY <1>1, <1>3, <2>1 DEF WaitsForItsLaunch
    <2> QED
      BY <2>4, <2>5
  <1>12. FenceNamesClose'
    BY <1>1, <1>4 DEF Inv, FenceNamesClose, PendingOf
  <1>13. ClosingAwaitsClose'
    BY <1>1 DEF Inv, ClosingAwaitsClose, PendingOf
  <1> QED
    BY <1>6, <1>7, <1>8, <1>9, <1>10, <1>11, <1>12, <1>13 DEF Inv, FenceFollowsClose

-----------------------------------------------------------------------------
(* Activations *)

\* A step on the activations, that may also select tabs and drop surfaces.
LEMMA ActivationsOnly ==
    ASSUME Inv, UNCHANGED <<operations, tombstones, drag, told>>,
           DOMAIN windows' = DOMAIN windows,
           IsMap(windows', WindowIds, Window),
           \A w \in DOMAIN windows :
              /\ windows'[w].tabs = windows[w].tabs
              /\ windows'[w].generation = windows[w].generation
              /\ windows'[w].hidden \subseteq windows[w].tabs
              /\ windows'[w].selected \in (windows[w].tabs \ windows'[w].hidden) \cup {NoTab},
           IsMap(surfaces', Tabs, Surface),
           \A t \in DOMAIN surfaces' : t \in DOMAIN surfaces /\ surfaces'[t] = surfaces[t],
           applied \subseteq applied', applied' \subseteq OpIds,
           IsMap(activations', Tabs, Activation),
           \A t \in DOMAIN activations' : FollowsItsTab(t)' /\ WaitsForItsLaunch(t)'
    PROVE  Inv'
  <1>1. TypeOK'
    BY DEF Inv, TypeOK
  <1>2. AuditPasses'
    <2>1. Unique(windows')
      BY DEF Inv, AuditPasses, Unique
    <2>2. LiveTabs(windows') = LiveTabs(windows)
      BY DEF LiveTabs
    <2>3. DOMAIN activations' \subseteq LiveTabs(windows')
      BY LiveTab DEF FollowsItsTab, Live
    <2>4. \A t \in DOMAIN tombstones :
             /\ tombstones[t].op \in DOMAIN operations
             /\ t \in DOMAIN surfaces' => surfaces'[t].lifecycle = "Closing"
      BY DEF Inv, AuditPasses
    <2>5. LiveTabs(windows') \cap DOMAIN tombstones' = {}
      BY <2>2 DEF Inv, AuditPasses
    <2> QED
      BY <2>1, <2>3, <2>4, <2>5 DEF AuditPasses
  <1>3. ActivationFollowsTab'
    BY DEF ActivationFollowsTab
  <1> QED
    BY <1>1, <1>2, <1>3, OperationsAlone

\* What the steps on activations leave of the windows: all but the selection.
LEMMA SameWindows ==
    ASSUME Inv, UNCHANGED windows
    PROVE  /\ DOMAIN windows' = DOMAIN windows
           /\ IsMap(windows', WindowIds, Window)
           /\ \A w \in DOMAIN windows :
                 /\ windows'[w].tabs = windows[w].tabs
                 /\ windows'[w].generation = windows[w].generation
                 /\ windows'[w].hidden \subseteq windows[w].tabs
                 /\ windows'[w].selected \in (windows[w].tabs \ windows'[w].hidden) \cup {NoTab}
  BY DEF Inv, TypeOK, AuditPasses

LEMMA NewActivationFacts ==
    ASSUME Inv, NEW id \in OpIds \cup {DormantAttempt}, NEW w \in DOMAIN windows,
           NEW phase \in ActivationPhase
    PROVE  /\ NewActivation(id, w, phase) \in Activation
           /\ NewActivation(id, w, phase).native = NoOp
           /\ NewActivation(id, w, phase).owner = w
           /\ NewActivation(id, w, phase).generation = windows[w].generation
           /\ windows[w].generation <= windows[w].generation
  <1>1. w \in WindowIds /\ windows[w].generation \in Generations
    BY WindowType DEF Inv
  <1>2. windows[w].generation \in Nat
    BY <1>1, NumbersAreNat
  <1>3. windows[w].generation <= windows[w].generation
    BY <1>2
  <1> QED
    BY <1>1, <1>3 DEF NewActivation, Activation

LEMMA SeedDormantTabsInv ==
    ASSUME Inv, NEW w \in WindowIds, NEW S \in SUBSET Tabs, SeedDormantTabs(w, S)
    PROVE  Inv'
  <1>1. /\ w \in DOMAIN windows
        /\ S \subseteq windows[w].tabs
        /\ surfaces' = Without(surfaces, S)
        /\ activations' = [t \in DOMAIN activations \cup S |->
                          IF t \in S THEN NewActivation(DormantAttempt, w, "Dormant")
                                     ELSE activations[t]]
        /\ UNCHANGED <<windows, operations, applied, tombstones, drag, told>>
    BY DEF SeedDormantTabs, Live
  <1>2. /\ IsMap(surfaces', Tabs, Surface)
        /\ \A t \in DOMAIN surfaces' : t \in DOMAIN surfaces /\ surfaces'[t] = surfaces[t]
        /\ \A t \in DOMAIN surfaces \ S : t \in DOMAIN surfaces'
    BY <1>1 DEF Without, Inv, TypeOK, IsMap
  <1>3. ASSUME NEW t \in DOMAIN activations'
        PROVE  /\ t \in Tabs /\ activations'[t] \in Activation
               /\ FollowsItsTab(t)' /\ WaitsForItsLaunch(t)'
    <2>1. CASE t \in S
      <3>1. activations'[t] = NewActivation(DormantAttempt, w, "Dormant")
        BY <1>1, <2>1
      <3>2. /\ activations'[t] \in Activation
            /\ activations'[t].native = NoOp
            /\ activations'[t].owner = w
            /\ activations'[t].generation <= windows[w].generation
        BY <1>1, <3>1, NewActivationFacts DEF ActivationPhase
      <3> QED
        BY <1>1, <2>1, <3>2 DEF FollowsItsTab, WaitsForItsLaunch, Live
    <2>2. CASE t \notin S
      <3>1. /\ t \in DOMAIN activations
            /\ activations'[t] = activations[t]
        BY <1>1, <2>2
      <3>2. FollowsItsTab(t) /\ WaitsForItsLaunch(t)
        BY <3>1 DEF Inv, ActivationFollowsTab
      <3>3. t \in Tabs /\ activations[t] \in Activation
        BY <3>1, ActivationType DEF Inv
      <3>4. FollowsItsTab(t)'
        BY <1>1, <3>1, <3>2 DEF FollowsItsTab, Live
      <3>5. WaitsForItsLaunch(t)'
        BY <1>1, <1>2, <2>2, <3>1, <3>2 DEF WaitsForItsLaunch
      <3> QED
        BY <3>1, <3>3, <3>4, <3>5
    <2> QED
      BY <2>1, <2>2
  <1>4. IsMap(activations', Tabs, Activation)
    <2>1. activations' = [t \in DOMAIN activations' |-> activations'[t]]
      BY <1>1
    <2> QED
      BY <1>3, <2>1, MapIntro
  <1>5. applied' \subseteq OpIds /\ applied \subseteq applied'
    BY <1>1 DEF Inv, TypeOK
  <1> HIDE DEF SeedDormantTabs
  <1> QED
    BY <1>1, <1>2, <1>3, <1>4, <1>5, SameWindows, ActivationsOnly

\* A tab that is given a fresh activation in the window that holds it.
LEMMA FreshActivation ==
    ASSUME Inv, NEW id \in OpIds, NEW t \in Tabs, NEW w \in DOMAIN windows,
           t \in windows[w].tabs,
           activations' = Put(activations, t, NewActivation(id, w, "Activating")),
           UNCHANGED <<operations, surfaces>>, DOMAIN windows' = DOMAIN windows,
           \A v \in DOMAIN windows :
              /\ windows'[v].tabs = windows[v].tabs
              /\ windows'[v].generation = windows[v].generation
    PROVE  /\ IsMap(activations', Tabs, Activation)
           /\ \A u \in DOMAIN activations' : FollowsItsTab(u)' /\ WaitsForItsLaunch(u)'
  <1> DEFINE a == NewActivation(id, w, "Activating")
  <1>1. /\ a \in Activation /\ a.native = NoOp /\ a.owner = w
        /\ a.generation <= windows[w].generation
    BY NewActivationFacts DEF ActivationPhase, InProgress
  <1> HIDE DEF a
  <1>2. activations' = Put(activations, t, a)
    BY DEF a
  <1>3. IsMap(activations', Tabs, Activation)
    BY <1>1, <1>2, PutIsMap DEF Inv, TypeOK
  <1>4. ASSUME NEW u \in DOMAIN activations' PROVE FollowsItsTab(u)' /\ WaitsForItsLaunch(u)'
    <2>1. CASE u = t
      <3>1. activations'[u] = a
        BY <1>2, <2>1 DEF Put
      <3> QED
        BY <1>1, <2>1, <3>1 DEF FollowsItsTab, WaitsForItsLaunch, Live
    <2>2. CASE u # t
      <3>1. u \in DOMAIN activations /\ activations'[u] = activations[u]
        BY <1>2, <2>2 DEF Put
      <3>2. FollowsItsTab(u) /\ WaitsForItsLaunch(u)
        BY <3>1 DEF Inv, ActivationFollowsTab
      <3> QED
        BY <3>1, <3>2 DEF FollowsItsTab, WaitsForItsLaunch, Live
    <2> QED
      BY <2>1, <2>2
  <1> QED
    BY <1>3, <1>4

LEMMA BeginTabActivationInv ==
    ASSUME Inv, NEW id \in OpIds, NEW t \in Tabs, NEW w \in WindowIds,
           BeginTabActivation(id, t, w)
    PROVE  Inv'
  <1>1. /\ w \in DOMAIN windows /\ t \in windows[w].tabs
        /\ activations' = Put(activations, t, NewActivation(id, w, "Activating"))
        /\ applied' = applied \cup {id}
        /\ UNCHANGED <<windows, operations, surfaces, tombstones, drag, told>>
    BY DEF BeginTabActivation, Visible, Live, Remember
  <1>2. /\ IsMap(activations', Tabs, Activation)
        /\ \A u \in DOMAIN activations' : FollowsItsTab(u)' /\ WaitsForItsLaunch(u)'
    BY <1>1, FreshActivation
  <1>3. /\ applied \subseteq applied' /\ applied' \subseteq OpIds
        /\ IsMap(surfaces', Tabs, Surface)
        /\ \A u \in DOMAIN surfaces' : u \in DOMAIN surfaces /\ surfaces'[u] = surfaces[u]
    BY <1>1 DEF Inv, TypeOK
  <1> QED
    BY <1>1, <1>2, <1>3, SameWindows, ActivationsOnly

LEMMA ActivateTabInv ==
    ASSUME Inv, NEW id \in OpIds, NEW t \in Tabs, NEW w \in WindowIds, ActivateTab(id, t, w)
    PROVE  Inv'
  <1>1. /\ w \in DOMAIN windows /\ t \in windows[w].tabs
        /\ windows' = IF windows[w].selected = t THEN windows
                      ELSE [windows EXCEPT ![w] = Select(windows[w], t)]
        /\ activations' = IF ShouldLaunch(t)
                          THEN Put(activations, t, NewActivation(id, w, "Activating"))
                          ELSE activations
        /\ applied' = applied \cup {id}
        /\ UNCHANGED <<operations, surfaces, tombstones, drag, told>>
    BY DEF ActivateTab, Visible, Live, Remember
  <1>2. /\ DOMAIN windows' = DOMAIN windows
        /\ IsMap(windows', WindowIds, Window)
        /\ \A v \in DOMAIN windows :
              /\ windows'[v].tabs = windows[v].tabs
              /\ windows'[v].generation = windows[v].generation
              /\ windows'[v].hidden \subseteq windows[v].tabs
              /\ windows'[v].selected \in (windows[v].tabs \ windows'[v].hidden) \cup {NoTab}
    <2>1. CASE windows[w].selected = t
      BY <1>1, <2>1, SameWindows
    <2>2. CASE windows[w].selected # t
      <3> DEFINE r == Select(windows[w], t)
      <3>1. /\ r \in Window /\ r.tabs = windows[w].tabs
            /\ r.hidden = windows[w].hidden \ {t} /\ r.selected = t
            /\ r.generation = windows[w].generation
        BY <1>1, WindowType, WindowEdits DEF Inv
      <3> HIDE DEF r
      <3>2. /\ IsMap(windows', WindowIds, Window)
            /\ DOMAIN windows' = DOMAIN windows
            /\ windows'[w] = r
            /\ \A v \in DOMAIN windows \ {w} : windows'[v] = windows[v]
        BY <1>1, <2>2, <3>1, UpdateIsMap DEF r, Inv, TypeOK
      <3>3. \A v \in DOMAIN windows :
              /\ windows[v].hidden \subseteq windows[v].tabs
              /\ windows[v].selected \in (windows[v].tabs \ windows[v].hidden) \cup {NoTab}
        BY DEF Inv, AuditPasses
      <3> QED
        BY <1>1, <3>1, <3>2, <3>3
    <2> QED
      BY <2>1, <2>2
  <1>3. /\ IsMap(activations', Tabs, Activation)
        /\ \A u \in DOMAIN activations' : FollowsItsTab(u)' /\ WaitsForItsLaunch(u)'
    <2>1. CASE ShouldLaunch(t)
      BY <1>1, <1>2, <2>1, FreshActivation
    <2>2. CASE ~ShouldLaunch(t)
      <3>1. \A u \in DOMAIN activations : FollowsItsTab(u) /\ WaitsForItsLaunch(u)
        BY DEF Inv, ActivationFollowsTab
      <3> QED
        BY <1>1, <1>2, <2>2, <3>1 DEF Inv, TypeOK, FollowsItsTab, WaitsForItsLaunch, Live
    <2> QED
      BY <2>1, <2>2
  <1>4. /\ applied \subseteq applied' /\ applied' \subseteq OpIds
        /\ IsMap(surfaces', Tabs, Surface)
        /\ \A u \in DOMAIN surfaces' : u \in DOMAIN surfaces /\ surfaces'[u] = surfaces[u]
    BY <1>1 DEF Inv, TypeOK
  <1> QED
    BY <1>1, <1>2, <1>3, <1>4, ActivationsOnly

LEMMA SetTabActivationPhaseInv ==
    ASSUME Inv, NEW id, NEW t \in Tabs, NEW phase \in ActivationPhase,
           SetTabActivationPhase(id, t, phase)
    PROVE  Inv'
  <1>1. /\ t \in DOMAIN activations
        /\ activations' = [activations EXCEPT ![t].phase = phase]
        /\ UNCHANGED <<windows, operations, applied, surfaces, tombstones, drag, told>>
    BY DEF SetTabActivationPhase
  <1> DEFINE a == [activations[t] EXCEPT !.phase = phase]
  <1>2. /\ a \in Activation /\ a.native = activations[t].native
        /\ a.owner = activations[t].owner /\ a.generation = activations[t].generation
    BY <1>1, ActivationType DEF Inv, Activation
  <1>3. activations' = [activations EXCEPT ![t] = a] /\ t \in DOMAIN activations
    BY <1>1
  <1> HIDE DEF a
  <1>4. /\ IsMap(activations', Tabs, Activation)
        /\ DOMAIN activations' = DOMAIN activations
        /\ activations'[t] = a
        /\ \A u \in DOMAIN activations \ {t} : activations'[u] = activations[u]
    <2>1. IsMap(activations, Tabs, Activation)
      BY DEF Inv, TypeOK
    <2> QED
      BY <1>2, <1>3, <2>1 DEF IsMap
  <1>5. ASSUME NEW u \in DOMAIN activations' PROVE FollowsItsTab(u)' /\ WaitsForItsLaunch(u)'
    <2>1. /\ activations'[u].owner = activations[u].owner
          /\ activations'[u].native = activations[u].native
          /\ activations'[u].generation = activations[u].generation
      BY <1>2, <1>4
    <2>2. FollowsItsTab(u) /\ WaitsForItsLaunch(u)
      BY <1>4 DEF Inv, ActivationFollowsTab
    <2> QED
      BY <1>1, <2>1, <2>2 DEF FollowsItsTab, WaitsForItsLaunch, Live
  <1>6. /\ applied \subseteq applied' /\ applied' \subseteq OpIds
        /\ IsMap(surfaces', Tabs, Surface)
        /\ \A u \in DOMAIN surfaces' : u \in DOMAIN surfaces /\ surfaces'[u] = surfaces[u]
    BY <1>1 DEF Inv, TypeOK
  <1> QED
    BY <1>1, <1>4, <1>5, <1>6, SameWindows, ActivationsOnly

LEMMA DragInv ==
    ASSUME Inv, drag' \in Tabs \cup {NoTab},
           UNCHANGED <<windows, operations, applied, surfaces, tombstones, activations, told>>
    PROVE  Inv'
  <1>1. TypeOK'
    BY DEF Inv, TypeOK
  <1>2. AuditPasses'
    BY DEF Inv, AuditPasses
  <1>3. ActivationFollowsTab'
    BY DEF Inv, ActivationFollowsTab, FollowsItsTab, WaitsForItsLaunch, Live
  <1> QED
    BY <1>1, <1>2, <1>3, OperationsAlone

LEMMA StartDragInv ==
    ASSUME Inv, NEW t \in Tabs, StartDrag(t)
    PROVE  Inv'
  BY DragInv DEF StartDrag

LEMMA EndDragInv ==
    ASSUME Inv, EndDrag
    PROVE  Inv'
  BY DragInv DEF EndDrag

LEMMA StutterInv ==
    ASSUME Inv, UNCHANGED vars
    PROVE  Inv'
  BY DragInv DEF vars, Inv, TypeOK

-----------------------------------------------------------------------------
(* Steps that end operations and nothing else of them *)

\* The parts of the invariant that are about operations, their reports and their
\* fences.
OperationsOK ==
    /\ FenceFollowsClose
    /\ OutcomeReportedOnce
    /\ KnownIds
    /\ FenceNamesClose
    /\ ClosingAwaitsClose

LEMMA Ending ==
    ASSUME Inv, NEW E, NEW phase \in Terminal, NEW cause \in Cause \ {"Native"},
           \A p \in E : p \in DOMAIN operations /\ ~Ended(operations[p]),
           IsMap(operations', OpIds, Operation),
           DOMAIN operations' = DOMAIN operations,
           \A p \in DOMAIN operations :
              /\ p \notin E => operations'[p] = operations[p]
              /\ operations'[p].kind = operations[p].kind
              /\ operations'[p].tab = operations[p].tab
              /\ p \in E => operations'[p].phase = phase /\ operations'[p].cause = cause,
           Tell(E, phase, cause),
           UNCHANGED <<applied, tombstones>>,
           DOMAIN windows \subseteq DOMAIN windows',
           \A t \in DOMAIN surfaces' :
              /\ t \in DOMAIN surfaces
              /\ surfaces'[t].op = surfaces[t].op
              /\ surfaces'[t].lifecycle = "Closing" <=> surfaces[t].lifecycle = "Closing"
    PROVE  OperationsOK'
  <1>1. \A p \in DOMAIN operations :
           ~Ended(operations'[p]) => p \notin E /\ operations'[p] = operations[p]
    BY DEF Ended
  <1>2. \A t : PendingOf(t)' \subseteq PendingOf(t)
    BY <1>1 DEF PendingOf
  <1>3. \A p \in OpIds : p \notin E => told'[p] = told[p]
    BY TellFacts DEF Inv
  <1>4. PendingCloseIsFenced'
    <2> SUFFICES ASSUME NEW p \in DOMAIN operations, operations'[p].kind = "closeTab",
                        ~Ended(operations'[p])
                 PROVE  LET t == operations'[p].tab IN
                        /\ t \in DOMAIN tombstones
                        /\ tombstones[t].op = p
                        /\ t \in DOMAIN surfaces' => surfaces'[t].op = p
      BY DEF PendingCloseIsFenced, Fenced
    <2>1. operations'[p] = operations[p]
      BY <1>1
    <2>2. LET t == operations[p].tab IN
          /\ t \in DOMAIN tombstones
          /\ tombstones[t].op = p
          /\ t \in DOMAIN surfaces => surfaces[t].op = p
      BY <2>1 DEF Inv, FenceFollowsClose, PendingCloseIsFenced, Fenced
    <2> QED
      BY <2>1, <2>2
  <1>5. RetiredWindowRetiresFence'
    <2> SUFFICES ASSUME NEW t \in DOMAIN tombstones, tombstones[t].window \notin DOMAIN windows'
                 PROVE  operations'[tombstones[t].op].cause # "Native"
      BY DEF RetiredWindowRetiresFence, Live
    <2>1. tombstones[t].op \in DOMAIN operations
      BY DEF Inv, AuditPasses
    <2>2. operations[tombstones[t].op].cause # "Native"
      BY DEF Inv, FenceFollowsClose, RetiredWindowRetiresFence, Live
    <2> QED
      BY <2>1, <2>2
  <1>6. OutcomeReportedOnce'
    <2> SUFFICES ASSUME NEW p \in DOMAIN operations
                 PROVE  LET op == operations'[p]
                            outcome == <<[phase |-> op.phase, cause |-> op.cause]>>
                        IN  IF ~Ended(op) THEN told'[p] = <<>>
                            ELSE told'[p] = outcome \/ (told'[p] = <<>> /\ op.kind = "closeTab"
                                                        /\ op.phase = "Completed"
                                                        /\ op.cause = "Native")
      BY DEF OutcomeReportedOnce
    <2>1. p \in OpIds
      BY OperationTypes DEF Inv
    <2>2. CASE p \in E
      <3>1. told[p] = <<>>
        BY <2>2 DEF Inv, OutcomeReportedOnce
      <3>2. told'[p] = <<[phase |-> phase, cause |-> cause]>>
        <4> DEFINE outcome == [phase |-> phase, cause |-> cause]
        <4>1. told' = [q \in OpIds |-> IF q \in E THEN Append(told[q], outcome) ELSE told[q]]
          BY DEF Tell
        <4> HIDE DEF outcome
        <4>2. told'[p] = Append(<<>>, outcome)
          BY <2>1, <2>2, <3>1, <4>1
        <4>3. Append(<<>>, outcome) = <<outcome>>
          OBVIOUS
        <4> QED
          BY <4>2, <4>3 DEF outcome
      <3>3. operations'[p].phase = phase /\ operations'[p].cause = cause
        BY <2>2
      <3> QED
        BY <3>2, <3>3 DEF Ended
    <2>3. CASE p \notin E
      <3>1. told'[p] = told[p] /\ operations'[p] = operations[p]
        BY <1>3, <2>1, <2>3
      <3> QED
        BY <3>1 DEF Inv, OutcomeReportedOnce
    <2> QED
      BY <2>2, <2>3
  <1>7. KnownIds'
    <2>1. \A p \in OpIds \ DOMAIN operations : told'[p] = told[p]
      BY <1>3
    <2> QED
      BY <2>1 DEF Inv, KnownIds
  <1>8. FenceNamesClose'
    <2> SUFFICES ASSUME NEW t \in DOMAIN tombstones
                 PROVE  LET o == tombstones[t].op IN
                        /\ operations'[o].kind = "closeTab"
                        /\ operations'[o].tab = t
                        /\ PendingOf(t)' \subseteq {o}
                        /\ operations'[o].cause = "Native" =>
                              /\ t \notin DOMAIN surfaces'
                              /\ operations'[o].phase \in {"Completed", "Failed"}
      BY DEF FenceNamesClose
    <2> DEFINE o == tombstones[t].op
    <2>1. o \in DOMAIN operations
      BY DEF Inv, AuditPasses
    <2>2. /\ operations[o].kind = "closeTab"
          /\ operations[o].tab = t
          /\ PendingOf(t) \subseteq {o}
          /\ operations[o].cause = "Native" =>
                t \notin DOMAIN surfaces /\ operations[o].phase \in {"Completed", "Failed"}
      BY DEF Inv, FenceNamesClose
    <2> HIDE DEF o
    <2>3. PendingOf(t)' \subseteq {o}
      BY <1>2, <2>2
    <2>4. operations'[o].cause = "Native" =>
                t \notin DOMAIN surfaces' /\ operations'[o].phase \in {"Completed", "Failed"}
      BY <2>1, <2>2
    <2> QED
      BY <2>1, <2>2, <2>3, <2>4 DEF o
  <1>9. ClosingAwaitsClose'
    <2> SUFFICES ASSUME NEW t \in DOMAIN surfaces', surfaces'[t].lifecycle = "Closing",
                        NEW p \in PendingOf(t)'
                 PROVE  operations'[p].kind = "closeTab"
      BY DEF ClosingAwaitsClose
    <2>1. p \in PendingOf(t) /\ p \in DOMAIN operations
      BY <1>2 DEF PendingOf
    <2> QED
      BY <2>1 DEF Inv, ClosingAwaitsClose
  <1> QED
    BY <1>4, <1>5, <1>6, <1>7, <1>8, <1>9 DEF OperationsOK, FenceFollowsClose

LEMMA InvParts ==
    ASSUME TypeOK', AuditPasses', ActivationFollowsTab', OperationsOK'
    PROVE  Inv'
  BY DEF Inv, OperationsOK

LEMMA FailEventStreamInv ==
    ASSUME Inv, NEW S \in SUBSET OpIds, FailEventStream(S)
    PROVE  Inv'
  <1> DEFINE lost == {o \in S \cap DOMAIN operations : ~Ended(operations[o])}
  <1>1. /\ operations' = [o \in DOMAIN operations |->
                             IF o \in lost THEN [operations[o] EXCEPT !.phase = "Indeterminate",
                                                                      !.cause = "StreamFailed"]
                                           ELSE operations[o]]
        /\ Tell(lost, "Indeterminate", "StreamFailed")
        /\ surfaces' = [t \in DOMAIN surfaces |->
                           IF t \in Orphans(lost) THEN [surfaces[t] EXCEPT !.lifecycle = "Failed"]
                                            ELSE surfaces[t]]
        /\ UNCHANGED <<windows, applied, tombstones, activations, drag>>
    BY DEF FailEventStream
  <1>2. \A p \in lost : p \in DOMAIN operations /\ ~Ended(operations[p])
    OBVIOUS
  <1> HIDE DEF lost
  <1>3. \A p \in DOMAIN operations : p \in OpIds /\ operations[p] \in Operation
    BY OperationTypes DEF Inv
  <1>4. "Indeterminate" \in Terminal /\ "StreamFailed" \in Cause \ {"Native"}
    BY DEF Terminal, Cause
  <1>5. /\ IsMap(operations', OpIds, Operation)
        /\ DOMAIN operations' = DOMAIN operations
        /\ \A p \in DOMAIN operations :
              /\ p \notin lost => operations'[p] = operations[p]
              /\ operations'[p].kind = operations[p].kind
              /\ operations'[p].tab = operations[p].tab
              /\ operations'[p].generation = operations[p].generation
              /\ p \in lost => operations'[p].phase = "Indeterminate"
                               /\ operations'[p].cause = "StreamFailed"
    <2>1. ASSUME NEW p \in DOMAIN operations
          PROVE  /\ p \notin lost => operations'[p] = operations[p]
                 /\ operations'[p].kind = operations[p].kind
                 /\ operations'[p].tab = operations[p].tab
                 /\ operations'[p].generation = operations[p].generation
                 /\ p \in lost => operations'[p].phase = "Indeterminate"
                                  /\ operations'[p].cause = "StreamFailed"
                 /\ operations'[p] \in Operation
      <3>1. CASE p \notin lost
        BY <1>1, <1>3, <3>1
      <3>2. CASE p \in lost
        <4>1. operations'[p] = [operations[p] EXCEPT !.phase = "Indeterminate",
                                                     !.cause = "StreamFailed"]
          BY <1>1, <3>2
        <4> QED
          BY <1>3, <1>4, <3>2, <4>1 DEF Operation
      <3> QED
        BY <3>1, <3>2
    <2> QED
      BY <1>1, <1>3, <2>1 DEF IsMap
  <1>6. ASSUME NEW t \in DOMAIN surfaces
        PROVE  /\ surfaces'[t] \in Surface
               /\ surfaces'[t].op = surfaces[t].op
               /\ surfaces'[t].lifecycle = "Closing" <=> surfaces[t].lifecycle = "Closing"
    <2>1. surfaces[t] \in Surface
      BY SurfaceType DEF Inv
    <2>2. CASE t \in Orphans(lost)
      <3>1. surfaces[t].lifecycle # "Closing"
        BY <2>2 DEF Orphans
      <3>2. surfaces'[t] = [surfaces[t] EXCEPT !.lifecycle = "Failed"]
        BY <1>1, <2>2
      <3> QED
        BY <2>1, <3>1, <3>2 DEF Surface, Lifecycle
    <2>3. CASE t \notin Orphans(lost)
      BY <1>1, <2>1, <2>3
    <2> QED
      BY <2>2, <2>3
  <1>7. DOMAIN surfaces' = DOMAIN surfaces /\ surfaces' = [t \in DOMAIN surfaces |-> surfaces'[t]]
    BY <1>1
  <1>8. OperationsOK'
    <2>1. \A t \in DOMAIN surfaces' :
              /\ t \in DOMAIN surfaces
              /\ surfaces'[t].op = surfaces[t].op
              /\ surfaces'[t].lifecycle = "Closing" <=> surfaces[t].lifecycle = "Closing"
      BY <1>6, <1>7
    <2>2. /\ Tell(lost, "Indeterminate", "StreamFailed")
          /\ UNCHANGED <<applied, tombstones>>
          /\ DOMAIN windows \subseteq DOMAIN windows'
      BY <1>1
    <2> QED
      BY <1>2, <1>4, <1>5, <2>1, <2>2, Ending
  <1>9. TypeOK'
    <2>1. IsMap(surfaces', Tabs, Surface)
      BY <1>6, <1>7, SurfaceType DEF Inv, IsMap
    <2>2. told' \in [OpIds -> Seq(Outcome)]
      BY <1>1, <1>4, TellFacts DEF Inv
    <2> QED
      BY <1>1, <1>5, <2>1, <2>2 DEF Inv, TypeOK
  <1>10. AuditPasses'
    BY <1>1, <1>5, <1>6, <1>7 DEF Inv, AuditPasses
  <1>11. ActivationFollowsTab'
    <2> SUFFICES ASSUME NEW t \in DOMAIN activations
                 PROVE  FollowsItsTab(t)' /\ WaitsForItsLaunch(t)'
      BY <1>1 DEF ActivationFollowsTab
    <2>1. FollowsItsTab(t)'
      BY <1>1 DEF Inv, ActivationFollowsTab, FollowsItsTab, Live
    <2>2. WaitsForItsLaunch(t)
      BY DEF Inv, ActivationFollowsTab
    <2>3. \A p \in DOMAIN operations : ~Ended(operations'[p]) => ~Ended(operations[p])
      BY <1>2, <1>5
    <2>4. activations' = activations /\ DOMAIN operations' = DOMAIN operations
      BY <1>1, <1>5
    <2>5. WaitsForItsLaunch(t)'
      BY <1>5, <1>6, <1>7, <2>2, <2>3, <2>4 DEF WaitsForItsLaunch
    <2> QED
      BY <2>1, <2>5
  <1> QED
    BY <1>8, <1>9, <1>10, <1>11, InvParts

\* What changing the phase and the cause of one operation does.
LEMMA OneEnds ==
    ASSUME TypeOK, NEW o \in DOMAIN operations, NEW phase \in Terminal, NEW cause \in Cause,
           operations' = [operations EXCEPT ![o].phase = phase, ![o].cause = cause]
    PROVE  /\ IsMap(operations', OpIds, Operation)
           /\ DOMAIN operations' = DOMAIN operations
           /\ Ended(operations'[o])
           /\ operations'[o].phase = phase /\ operations'[o].cause = cause
           /\ \A p \in DOMAIN operations :
                 /\ p # o => operations'[p] = operations[p]
                 /\ operations'[p].kind = operations[p].kind
                 /\ operations'[p].tab = operations[p].tab
                 /\ operations'[p].attempt = operations[p].attempt
                 /\ operations'[p].generation = operations[p].generation
  <1> DEFINE r == [operations[o] EXCEPT !.phase = phase, !.cause = cause]
  <1>1. operations' = [operations EXCEPT ![o] = r]
    OBVIOUS
  <1>2. operations[o] \in Operation
    BY OperationTypes
  <1>3. /\ r \in Operation /\ Ended(r)
        /\ r.kind = operations[o].kind /\ r.tab = operations[o].tab
        /\ r.attempt = operations[o].attempt
        /\ r.generation = operations[o].generation /\ r.phase = phase /\ r.cause = cause
    BY <1>2 DEF Operation, Ended
  <1>4. IsMap(operations, OpIds, Operation)
    BY DEF TypeOK
  <1> HIDE DEF r
  <1> QED
    BY <1>1, <1>3, <1>4, ZenonT(30) DEF IsMap

LEMMA TerminalizeOperationInv ==
    ASSUME Inv, NEW o \in OpIds, NEW phase \in Terminal, TerminalizeOperation(o, phase)
    PROVE  Inv'
  <1>1. /\ o \in DOMAIN operations /\ ~Ended(operations[o])
        /\ operations' = [operations EXCEPT ![o].phase = phase, ![o].cause = "Caller"]
        /\ Tell({o}, phase, "Caller")
        /\ UNCHANGED <<windows, applied, surfaces, tombstones, activations, drag>>
    BY DEF TerminalizeOperation
  <1>2. "Caller" \in Cause \ {"Native"} /\ "Caller" \in Cause
    BY DEF Cause
  <1>3. /\ IsMap(operations', OpIds, Operation)
        /\ DOMAIN operations' = DOMAIN operations
        /\ operations'[o].phase = phase /\ operations'[o].cause = "Caller"
        /\ \A p \in DOMAIN operations :
              /\ p # o => operations'[p] = operations[p]
              /\ operations'[p].kind = operations[p].kind
              /\ operations'[p].tab = operations[p].tab
              /\ operations'[p].generation = operations[p].generation
    BY <1>1, <1>2, OneEnds DEF Inv
  <1>4. OperationsOK'
    <2>1. \A p \in {o} : p \in DOMAIN operations /\ ~Ended(operations[p])
      BY <1>1
    <2>2. \A p \in DOMAIN operations :
              /\ p \notin {o} => operations'[p] = operations[p]
              /\ operations'[p].kind = operations[p].kind
              /\ operations'[p].tab = operations[p].tab
              /\ p \in {o} => operations'[p].phase = phase /\ operations'[p].cause = "Caller"
      BY <1>3
    <2>3. /\ DOMAIN windows \subseteq DOMAIN windows'
          /\ UNCHANGED <<applied, tombstones>>
          /\ \A t \in DOMAIN surfaces' :
                /\ t \in DOMAIN surfaces
                /\ surfaces'[t].op = surfaces[t].op
                /\ surfaces'[t].lifecycle = "Closing" <=> surfaces[t].lifecycle = "Closing"
      BY <1>1
    <2>4. /\ IsMap(operations', OpIds, Operation)
          /\ DOMAIN operations' = DOMAIN operations
          /\ Tell({o}, phase, "Caller")
      BY <1>1, <1>3
    <2> QED
      BY <1>2, <2>1, <2>2, <2>3, <2>4, Ending
  <1>5. TypeOK'
    <2>1. told' \in [OpIds -> Seq(Outcome)]
      BY <1>1, <1>2, TellFacts DEF Inv
    <2> QED
      BY <1>1, <1>3, <2>1 DEF Inv, TypeOK
  <1>6. AuditPasses'
    BY <1>1, <1>3 DEF Inv, AuditPasses
  <1>7. ActivationFollowsTab'
    <2> SUFFICES ASSUME NEW t \in DOMAIN activations
                 PROVE  FollowsItsTab(t)' /\ WaitsForItsLaunch(t)'
      BY <1>1 DEF ActivationFollowsTab
    <2>1. FollowsItsTab(t)'
      BY <1>1 DEF Inv, ActivationFollowsTab, FollowsItsTab, Live
    <2>2. WaitsForItsLaunch(t)
      BY DEF Inv, ActivationFollowsTab
    <2>3. \A p \in DOMAIN operations : ~Ended(operations'[p]) => ~Ended(operations[p])
      BY <1>1, <1>3
    <2>4. WaitsForItsLaunch(t)'
      BY <1>1, <1>3, <2>2, <2>3 DEF WaitsForItsLaunch
    <2> QED
      BY <2>1, <2>4
  <1> QED
    BY <1>4, <1>5, <1>6, <1>7, InvParts

-----------------------------------------------------------------------------
(* Launches and closes *)

LEMMA RecreateTabInv ==
    ASSUME Inv, NEW t \in Tabs, NEW attempt, NEW w, RecreateTab(t, attempt, w)
    PROVE  Inv'
  <1>1. /\ t \in DOMAIN tombstones
        /\ Ended(operations[tombstones[t].op])
        /\ DOMAIN tombstones' = DOMAIN tombstones \ {t}
        /\ \A u \in DOMAIN tombstones' : tombstones'[u] = tombstones[u]
        /\ tombstones' = Without(tombstones, {t})
        /\ UNCHANGED <<windows, operations, applied, surfaces, activations, drag, told>>
    BY DEF RecreateTab, Fenced, Relaunchable, Without
  <1>2. TypeOK'
    BY <1>1, WithoutIsMap DEF Inv, TypeOK
  <1>3. AuditPasses'
    BY <1>1 DEF Inv, AuditPasses
  <1>4. ActivationFollowsTab'
    BY <1>1 DEF Inv, ActivationFollowsTab, FollowsItsTab, WaitsForItsLaunch, Live
  <1>5. PendingCloseIsFenced'
    <2> SUFFICES ASSUME NEW p \in DOMAIN operations, operations[p].kind = "closeTab",
                        ~Ended(operations[p])
                 PROVE  LET u == operations[p].tab IN
                        /\ u \in DOMAIN tombstones'
                        /\ tombstones'[u].op = p
                        /\ u \in DOMAIN surfaces => surfaces[u].op = p
      BY <1>1 DEF PendingCloseIsFenced, Fenced
    <2>1. LET u == operations[p].tab IN
          /\ u \in DOMAIN tombstones
          /\ tombstones[u].op = p
          /\ u \in DOMAIN surfaces => surfaces[u].op = p
      BY DEF Inv, FenceFollowsClose, PendingCloseIsFenced, Fenced
    <2>2. operations[p].tab # t
      BY <1>1, <2>1
    <2> QED
      BY <1>1, <2>1, <2>2
  <1>6. RetiredWindowRetiresFence'
    BY <1>1 DEF Inv, FenceFollowsClose, RetiredWindowRetiresFence, Live
  <1>7. OutcomeReportedOnce' /\ KnownIds'
    BY <1>1 DEF Inv, OutcomeReportedOnce, KnownIds
  <1>8. FenceNamesClose'
    <2>1. \A u : PendingOf(u)' = PendingOf(u)
      BY <1>1 DEF PendingOf
    <2>2. operations' = operations /\ surfaces' = surfaces
      BY <1>1
    <2>3. /\ DOMAIN tombstones' \subseteq DOMAIN tombstones
          /\ \A u \in DOMAIN tombstones' : tombstones'[u] = tombstones[u]
      BY <1>1
    <2> QED
      BY <2>1, <2>2, <2>3 DEF Inv, FenceNamesClose
  <1>9. ClosingAwaitsClose'
    BY <1>1 DEF Inv, ClosingAwaitsClose, PendingOf
  <1> QED
    BY <1>2, <1>3, <1>4, <1>5, <1>6, <1>7, <1>8, <1>9 DEF Inv, FenceFollowsClose

\* Once the close that fences a tab has ended, nothing is pending on the tab:
\* the launch that follows supersedes no operation.
LEMMA NothingSuperseded ==
    ASSUME Inv, NEW t, Fenced(t) => Ended(operations[tombstones[t].op])
    PROVE  (IF Fenced(t) THEN PendingOf(t) ELSE {}) = {}
  BY DEF Inv, FenceNamesClose, PendingOf, Fenced

LEMMA BeginOperationInv ==
    ASSUME Inv, NEW o \in OpIds, NEW t \in Tabs, NEW attempt \in Attempts, NEW w \in WindowIds,
           NEW g \in Generations, BeginOperation(o, t, attempt, w, g)
    PROVE  Inv'
  <1> DEFINE launch == [kind |-> "launch", tab |-> t, attempt |-> attempt,
                        generation |-> g, phase |-> "Pending", cause |-> "None"]
             s == [lifecycle |-> "Desired", op |-> o]
  <1>1. /\ o \notin applied
        /\ t \notin DOMAIN surfaces
        /\ t \in DOMAIN tombstones => Ended(operations[tombstones[t].op])
        /\ tombstones' = Without(tombstones, {t})
        /\ surfaces' = Put(surfaces, t, s)
        /\ activations' = IF Awaits(t, w, g)
                          THEN [activations EXCEPT ![t].native = o, ![t].phase = "Attaching"]
                          ELSE activations
        /\ applied' = applied \cup {o}
        /\ UNCHANGED <<windows, drag>>
    BY DEF BeginOperation, Fresh, Remember, Fenced, Relaunchable
  <1>2. /\ operations' = Put(operations, o, launch)
        /\ told' = told
    <2>1. (IF Fenced(t) THEN PendingOf(t) ELSE {}) = {}
      BY <1>1, NothingSuperseded DEF Fenced
    <2>2. /\ operations' = Put(CancelAll({}, "SupersededByRelaunch"), o, launch)
          /\ Tell({}, "Cancelled", "SupersededByRelaunch")
      BY <2>1 DEF BeginOperation
    <2>3. CancelAll({}, "SupersededByRelaunch") = operations
      BY DEF CancelAll, Inv, TypeOK, IsMap
    <2>4. told' = told
      BY <2>2 DEF Tell, Inv, TypeOK
    <2> QED
      BY <2>2, <2>3, <2>4
  <1>3. o \notin DOMAIN operations /\ told[o] = <<>>
    BY <1>1 DEF Inv, KnownIds
  <1>4. /\ launch \in Operation /\ ~Ended(launch) /\ launch.kind = "launch"
        /\ launch.tab = t /\ launch.generation = g
    BY DEF Operation, Ended, Terminal, Cause
  <1>5. s \in Surface /\ s.lifecycle = "Desired" /\ s.op = o
    BY DEF Surface, Lifecycle
  <1> HIDE DEF launch, s
  <1>6. /\ DOMAIN operations' = DOMAIN operations \cup {o}
        /\ operations'[o] = launch
        /\ \A p \in DOMAIN operations : p # o /\ operations'[p] = operations[p]
        /\ IsMap(operations', OpIds, Operation)
    <2>1. IsMap(operations, OpIds, Operation)
      BY DEF Inv, TypeOK
    <2>2. IsMap(operations', OpIds, Operation)
      BY <1>2, <1>4, <2>1, PutIsMap
    <2> QED
      BY <1>2, <1>3, <2>2 DEF Put
  <1>7. /\ DOMAIN surfaces' = DOMAIN surfaces \cup {t}
        /\ surfaces'[t] = s
        /\ \A u \in DOMAIN surfaces : u # t /\ surfaces'[u] = surfaces[u]
        /\ IsMap(surfaces', Tabs, Surface)
    <2>1. IsMap(surfaces, Tabs, Surface)
      BY DEF Inv, TypeOK
    <2>2. IsMap(surfaces', Tabs, Surface)
      BY <1>1, <1>5, <2>1, PutIsMap
    <2> QED
      BY <1>1, <2>2 DEF Put
  <1>8. /\ DOMAIN tombstones' = DOMAIN tombstones \ {t}
        /\ \A u \in DOMAIN tombstones' : tombstones'[u] = tombstones[u]
        /\ IsMap(tombstones', Tabs, Tombstone)
    BY <1>1, WithoutIsMap DEF Without, Inv, TypeOK
  <1>9. \A u : u # t => PendingOf(u)' = PendingOf(u)
    BY <1>4, <1>6 DEF PendingOf
  <1>10. /\ DOMAIN activations' = DOMAIN activations
         /\ IsMap(activations', Tabs, Activation)
         /\ \A u \in DOMAIN activations :
               /\ u # t => activations'[u] = activations[u]
               /\ activations'[u].owner = activations[u].owner
               /\ activations'[u].generation = activations[u].generation
               /\ \/ activations'[u].native = activations[u].native
                  \/ u = t /\ activations'[u].native = o /\ activations[u].generation = g
    <2>1. CASE Awaits(t, w, g)
      <3> DEFINE a == [activations[t] EXCEPT !.native = o, !.phase = "Attaching"]
      <3>1. t \in DOMAIN activations /\ activations[t].generation = g
        BY <2>1 DEF Awaits
      <3>2. activations[t] \in Activation
        BY <3>1, ActivationType DEF Inv
      <3>3. /\ a \in Activation /\ a.owner = activations[t].owner
            /\ a.generation = activations[t].generation /\ a.native = o
        BY <3>2 DEF Activation, ActivationPhase, InProgress
      <3>4. activations' = [activations EXCEPT ![t] = a]
        BY <1>1, <2>1
      <3>5. IsMap(activations, Tabs, Activation)
        BY DEF Inv, TypeOK
      <3> HIDE DEF a
      <3>6. /\ IsMap(activations', Tabs, Activation)
            /\ DOMAIN activations' = DOMAIN activations
            /\ activations'[t] = a
            /\ \A u \in DOMAIN activations : u # t => activations'[u] = activations[u]
        BY <3>1, <3>3, <3>4, <3>5 DEF IsMap
      <3> QED
        BY <3>1, <3>3, <3>6
    <2>2. CASE ~Awaits(t, w, g)
      <3>1. activations' = activations
        BY <1>1, <2>2
      <3> QED
        BY <3>1 DEF Inv, TypeOK
    <2> QED
      BY <2>1, <2>2
  <1>11. TypeOK'
    <2>1. applied' \subseteq OpIds
      BY <1>1 DEF Inv, TypeOK
    <2> QED
      BY <1>1, <1>2, <1>6, <1>7, <1>8, <1>10, <2>1 DEF Inv, TypeOK
  <1>12. AuditPasses'
    BY <1>1, <1>6, <1>7, <1>8, <1>10 DEF Inv, AuditPasses
  <1>13. PendingCloseIsFenced'
    <2> SUFFICES ASSUME NEW p \in DOMAIN operations', operations'[p].kind = "closeTab",
                        ~Ended(operations'[p])
                 PROVE  LET u == operations'[p].tab IN
                        /\ u \in DOMAIN tombstones'
                        /\ tombstones'[u].op = p
                        /\ u \in DOMAIN surfaces' => surfaces'[u].op = p
      BY DEF PendingCloseIsFenced, Fenced
    <2>1. p \in DOMAIN operations /\ operations'[p] = operations[p]
      BY <1>4, <1>6
    <2>2. LET u == operations[p].tab IN
          /\ u \in DOMAIN tombstones
          /\ tombstones[u].op = p
          /\ u \in DOMAIN surfaces => surfaces[u].op = p
      BY <2>1 DEF Inv, FenceFollowsClose, PendingCloseIsFenced, Fenced
    <2>3. operations[p].tab # t
      BY <1>1, <2>1, <2>2
    <2> QED
      BY <1>7, <1>8, <2>1, <2>2, <2>3
  <1>14. RetiredWindowRetiresFence'
    <2> SUFFICES ASSUME NEW u \in DOMAIN tombstones', tombstones'[u].window \notin DOMAIN windows
                 PROVE  operations'[tombstones'[u].op].cause # "Native"
      BY <1>1 DEF RetiredWindowRetiresFence, Live
    <2>1. u \in DOMAIN tombstones /\ tombstones'[u] = tombstones[u]
      BY <1>8
    <2>2. tombstones[u].op \in DOMAIN operations
      BY <2>1 DEF Inv, AuditPasses
    <2>3. operations[tombstones[u].op].cause # "Native"
      BY <2>1 DEF Inv, FenceFollowsClose, RetiredWindowRetiresFence, Live
    <2> QED
      BY <1>6, <2>1, <2>2, <2>3
  <1>15. OutcomeReportedOnce'
    BY <1>2, <1>3, <1>4, <1>6 DEF Inv, OutcomeReportedOnce
  <1>16. KnownIds'
    BY <1>1, <1>2, <1>6 DEF Inv, KnownIds
  <1>17. ActivationFollowsTab'
    <2> SUFFICES ASSUME NEW u \in DOMAIN activations
                 PROVE  FollowsItsTab(u)' /\ WaitsForItsLaunch(u)'
      BY <1>10 DEF ActivationFollowsTab
    <2>1. FollowsItsTab(u) /\ WaitsForItsLaunch(u)
      BY DEF Inv, ActivationFollowsTab
    <2>2. FollowsItsTab(u)'
      BY <1>1, <1>10, <2>1 DEF FollowsItsTab, Live
    <2>3. CASE activations'[u].native = activations[u].native
      <3> DEFINE n == activations[u].native
      <3> SUFFICES ASSUME n # NoOp
                   PROVE  /\ n \in DOMAIN operations'
                          /\ operations'[n].kind = "launch"
                          /\ operations'[n].tab = u
                          /\ operations'[n].generation = activations'[u].generation
                          /\ ~Ended(operations'[n]) =>
                                u \in DOMAIN surfaces' /\ surfaces'[u].op = n
        BY <2>2, <2>3 DEF WaitsForItsLaunch
      <3>1. /\ n \in DOMAIN operations
            /\ operations[n].kind = "launch"
            /\ operations[n].tab = u
            /\ operations[n].generation = activations[u].generation
            /\ ~Ended(operations[n]) => u \in DOMAIN surfaces /\ surfaces[u].op = n
        BY <2>1 DEF WaitsForItsLaunch
      <3>2. operations'[n] = operations[n]
        BY <1>6, <3>1
      <3>3. activations'[u].generation = activations[u].generation
        BY <1>10
      <3> HIDE DEF n
      <3> QED
        BY <1>6, <1>7, <3>1, <3>2, <3>3
    <2>4. CASE u = t /\ activations'[u].native = o /\ activations[u].generation = g
      <3>1. activations'[u].generation = g
        BY <1>10, <2>4
      <3>2. /\ o \in DOMAIN operations' /\ operations'[o] = launch
            /\ u \in DOMAIN surfaces' /\ surfaces'[u].op = o
        BY <1>5, <1>6, <1>7, <2>4
      <3> QED
        BY <1>4, <2>2, <2>4, <3>1, <3>2 DEF WaitsForItsLaunch
    <2> QED
      BY <1>10, <2>2, <2>3, <2>4
  <1>18. FenceNamesClose'
    <2> SUFFICES ASSUME NEW u \in DOMAIN tombstones'
                 PROVE  LET p == tombstones'[u].op IN
                        /\ operations'[p].kind = "closeTab"
                        /\ operations'[p].tab = u
                        /\ PendingOf(u)' \subseteq {p}
                        /\ operations'[p].cause = "Native" =>
                              /\ u \notin DOMAIN surfaces'
                              /\ operations'[p].phase \in {"Completed", "Failed"}
      BY DEF FenceNamesClose
    <2>1. /\ u \in DOMAIN tombstones /\ u # t /\ tombstones'[u] = tombstones[u]
          /\ tombstones[u].op \in DOMAIN operations
      BY <1>8 DEF Inv, AuditPasses
    <2>2. PendingOf(u)' = PendingOf(u)
      BY <1>9, <2>1
    <2> QED
      BY <1>6, <1>7, <2>1, <2>2 DEF Inv, FenceNamesClose
  <1>19. ClosingAwaitsClose'
    <2> SUFFICES ASSUME NEW u \in DOMAIN surfaces', surfaces'[u].lifecycle = "Closing",
                        NEW p \in PendingOf(u)'
                 PROVE  operations'[p].kind = "closeTab"
      BY DEF ClosingAwaitsClose
    <2>1. u # t /\ u \in DOMAIN surfaces /\ surfaces'[u] = surfaces[u]
      BY <1>5, <1>7
    <2>2. p \in PendingOf(u) /\ p \in DOMAIN operations
      BY <1>9, <2>1 DEF PendingOf
    <2> QED
      BY <1>6, <2>1, <2>2 DEF Inv, ClosingAwaitsClose
  <1> QED
    BY <1>11, <1>12, <1>13, <1>14, <1>15, <1>16, <1>17, <1>18, <1>19 DEF Inv, FenceFollowsClose

\* What a close does to its window: the tab leaves it.
LEMMA ClosedWindow ==
    ASSUME Inv, NEW w \in DOMAIN windows, NEW t \in windows[w].tabs,
           NEW successor \in Tabs \cup {NoTab},
           successor # NoTab => Visible(w, successor) /\ successor # t,
           NEW r, r = IF successor = NoTab THEN RemoveTab(windows[w], t)
                      ELSE Select(RemoveTab(windows[w], t), successor)
    PROVE  /\ r \in Window
           /\ r.tabs = windows[w].tabs \ {t}
           /\ r.generation = windows[w].generation
           /\ r.hidden \subseteq r.tabs
           /\ r.selected \in (r.tabs \ r.hidden) \cup {NoTab}
  <1> DEFINE rest == RemoveTab(windows[w], t)
  <1>1. /\ windows[w] \in Window /\ t \in Tabs
        /\ windows[w].hidden \subseteq windows[w].tabs
        /\ windows[w].selected \in (windows[w].tabs \ windows[w].hidden) \cup {NoTab}
    BY WindowType DEF Inv, AuditPasses
  <1>2. /\ rest \in Window /\ rest.tabs = windows[w].tabs \ {t}
        /\ rest.hidden = windows[w].hidden \ {t}
        /\ rest.selected = IF windows[w].selected = t THEN NoTab ELSE windows[w].selected
        /\ rest.generation = windows[w].generation
    BY <1>1, WindowEdits
  <1> HIDE DEF rest
  <1>3. CASE successor = NoTab
    BY <1>1, <1>2, <1>3 DEF rest
  <1>4. CASE successor # NoTab
    <2>1. successor \in windows[w].tabs /\ successor # t /\ successor \in Tabs
      BY <1>4 DEF Visible
    <2> DEFINE q == Select(rest, successor)
    <2>2. /\ q \in Window /\ q.tabs = rest.tabs /\ q.hidden = rest.hidden \ {successor}
          /\ q.selected = successor /\ q.generation = rest.generation
      BY <1>2, <2>1, WindowEdits
    <2>3. r = q
      BY <1>4 DEF rest
    <2> HIDE DEF q
    <2> QED
      BY <1>1, <1>2, <2>1, <2>2, <2>3
  <1> QED
    BY <1>3, <1>4

LEMMA CloseTabInv ==
    ASSUME Inv, NEW o \in OpIds, NEW t \in Tabs, NEW attempt \in Attempts, NEW w \in WindowIds,
           NEW g \in Generations, NEW successor \in Tabs \cup {NoTab},
           CloseTab(o, t, attempt, w, g, successor)
    PROVE  Inv'
  <1> DEFINE dormant == DormantWithoutSurface(t)
             S == PendingOf(t)
             close == [kind |-> "closeTab", tab |-> t, attempt |-> attempt,
                       generation |-> g, phase |-> IF dormant THEN "Completed" ELSE "Pending",
                       cause |-> IF dormant THEN "Native" ELSE "None"]
             r == IF successor = NoTab THEN RemoveTab(windows[w], t)
                  ELSE Select(RemoveTab(windows[w], t), successor)
             fence == [op |-> o, window |-> w]
             cancelled == CancelAll(S, "SupersededByClose")
  <1>1. /\ o \notin applied
        /\ t \notin DOMAIN tombstones
        /\ w \in DOMAIN windows /\ t \in windows[w].tabs
        /\ successor # NoTab => Visible(w, successor) /\ successor # t
        /\ windows' = [windows EXCEPT ![w] = r]
        /\ activations' = Without(activations, {t})
        /\ operations' = Put(cancelled, o, close)
        /\ Tell(S, "Cancelled", "SupersededByClose")
        /\ tombstones' = IF dormant THEN tombstones ELSE Put(tombstones, t, fence)
        /\ surfaces' = IF t \notin DOMAIN surfaces THEN surfaces
                       ELSE [surfaces EXCEPT ![t].lifecycle = "Closing", ![t].op = o]
        /\ applied' = applied \cup {o}
        /\ UNCHANGED drag
    BY DEF CloseTab, Fresh, Fenced, Live, Remember
  <1>2. dormant => t \notin DOMAIN surfaces
    BY DEF DormantWithoutSurface
  <1>3. /\ close \in Operation /\ close.kind = "closeTab" /\ close.tab = t
        /\ dormant => close.phase = "Completed" /\ close.cause = "Native" /\ Ended(close)
        /\ ~dormant => close.cause = "None" /\ ~Ended(close)
    <2>1. CASE dormant
      BY <2>1 DEF Operation, Terminal, Cause, Ended
    <2>2. CASE ~dormant
      BY <2>2 DEF Operation, Terminal, Cause, Ended
    <2> QED
      BY <2>1, <2>2
  <1>4. /\ r \in Window
        /\ r.tabs = windows[w].tabs \ {t}
        /\ r.generation = windows[w].generation
        /\ r.hidden \subseteq r.tabs
        /\ r.selected \in (r.tabs \ r.hidden) \cup {NoTab}
    <2>1. /\ w \in DOMAIN windows /\ t \in windows[w].tabs
          /\ successor # NoTab => Visible(w, successor) /\ successor # t
      BY <1>1
    <2>2. r = IF successor = NoTab THEN RemoveTab(windows[w], t)
              ELSE Select(RemoveTab(windows[w], t), successor)
      OBVIOUS
    <2> HIDE DEF r
    <2> QED
      BY <2>1, <2>2, ClosedWindow, SMTT(30)
  <1>5. fence \in Tombstone /\ fence.op = o /\ fence.window = w
    BY DEF Tombstone
  <1>6. o \notin DOMAIN operations /\ told[o] = <<>>
    BY <1>1 DEF Inv, KnownIds
  <1>7. "Cancelled" \in Terminal /\ "SupersededByClose" \in Cause \ {"Native"}
        /\ "SupersededByClose" \in Cause
    BY DEF Terminal, Cause
  <1>8. /\ S \subseteq DOMAIN operations
        /\ \A p \in DOMAIN operations : p \in S <=> operations[p].tab = t /\ ~Ended(operations[p])
    BY DEF PendingOf
  <1>9. /\ IsMap(cancelled, OpIds, Operation)
        /\ DOMAIN cancelled = DOMAIN operations
        /\ \A p \in DOMAIN operations :
              /\ p \notin S => cancelled[p] = operations[p]
              /\ cancelled[p].kind = operations[p].kind
              /\ cancelled[p].tab = operations[p].tab
              /\ cancelled[p].generation = operations[p].generation
              /\ p \in S => cancelled[p].phase = "Cancelled" /\ cancelled[p].cause = "SupersededByClose"
    BY <1>7, CancelAllFacts DEF Inv
  <1> HIDE DEF dormant, S, close, r, fence, cancelled
  <1>10. /\ IsMap(operations', OpIds, Operation)
         /\ DOMAIN operations' = DOMAIN operations \cup {o}
         /\ operations'[o] = close
         /\ \A p \in DOMAIN operations :
               /\ p # o
               /\ p \notin S => operations'[p] = operations[p]
               /\ operations'[p].kind = operations[p].kind
               /\ operations'[p].tab = operations[p].tab
               /\ operations'[p].generation = operations[p].generation
               /\ p \in S => operations'[p].phase = "Cancelled"
                             /\ operations'[p].cause = "SupersededByClose"
    <2>1. IsMap(operations', OpIds, Operation)
      BY <1>1, <1>3, <1>9, PutIsMap
    <2>2. /\ DOMAIN operations' = DOMAIN operations \cup {o}
          /\ operations'[o] = close
          /\ \A p \in DOMAIN operations : p # o /\ operations'[p] = cancelled[p]
      BY <1>1, <1>6, <1>9 DEF Put
    <2> QED
      BY <1>9, <2>1, <2>2
  <1>11. \A p \in S : Ended(operations'[p])
    BY <1>7, <1>8, <1>10 DEF Ended
  <1>12. PendingOf(t)' \subseteq {o}
    BY <1>8, <1>10, <1>11 DEF PendingOf
  <1>13. \A u : u # t => PendingOf(u)' = PendingOf(u)
    BY <1>3, <1>8, <1>10 DEF PendingOf
  <1>14. /\ IsMap(windows', WindowIds, Window)
         /\ DOMAIN windows' = DOMAIN windows
         /\ windows'[w] = r
         /\ \A v \in DOMAIN windows \ {w} : windows'[v] = windows[v]
    <2>1. IsMap(windows, WindowIds, Window)
      BY DEF Inv, TypeOK
    <2> QED
      BY <1>1, <1>4, <2>1 DEF IsMap
  <1>15. \A v \in DOMAIN windows : /\ windows'[v].tabs = windows[v].tabs \ {t}
                                   /\ windows'[v].generation = windows[v].generation
    <2>1. \A v \in DOMAIN windows \ {w} : t \notin windows[v].tabs
      BY <1>1 DEF Inv, AuditPasses, Unique
    <2> QED
      BY <1>4, <1>14, <2>1
  <1>16. /\ DOMAIN activations' = DOMAIN activations \ {t}
         /\ \A u \in DOMAIN activations' : activations'[u] = activations[u]
         /\ IsMap(activations', Tabs, Activation)
    <2>1. IsMap(activations, Tabs, Activation)
      BY DEF Inv, TypeOK
    <2>2. IsMap(activations', Tabs, Activation)
      BY <1>1, <2>1, WithoutIsMap
    <2> QED
      BY <1>1, <2>2 DEF Without
  <1>17. /\ IsMap(tombstones', Tabs, Tombstone)
         /\ DOMAIN tombstones' = IF dormant THEN DOMAIN tombstones ELSE DOMAIN tombstones \cup {t}
         /\ \A u \in DOMAIN tombstones : tombstones'[u] = tombstones[u]
         /\ ~dormant => tombstones'[t] = fence
    <2>1. IsMap(tombstones, Tabs, Tombstone)
      BY DEF Inv, TypeOK
    <2>2. IsMap(tombstones', Tabs, Tombstone)
      BY <1>1, <1>5, <2>1, PutIsMap
    <2> QED
      BY <1>1, <2>2 DEF Put
  <1>18. /\ IsMap(surfaces', Tabs, Surface)
         /\ DOMAIN surfaces' = DOMAIN surfaces
         /\ \A u \in DOMAIN surfaces \ {t} : surfaces'[u] = surfaces[u]
         /\ t \in DOMAIN surfaces => surfaces'[t].lifecycle = "Closing" /\ surfaces'[t].op = o
    <2>1. IsMap(surfaces, Tabs, Surface)
      BY DEF Inv, TypeOK
    <2>2. CASE t \notin DOMAIN surfaces
      <3>1. surfaces' = surfaces
        BY <1>1, <2>2
      <3> QED
        BY <2>1, <2>2, <3>1
    <2>3. CASE t \in DOMAIN surfaces
      <3> DEFINE s == [surfaces[t] EXCEPT !.lifecycle = "Closing", !.op = o]
      <3>1. s \in Surface /\ s.lifecycle = "Closing" /\ s.op = o
        BY <2>3, SurfaceType DEF Inv, Surface, Lifecycle
      <3>2. surfaces' = [surfaces EXCEPT ![t] = s]
        BY <1>1, <2>3
      <3> HIDE DEF s
      <3> QED
        BY <2>1, <2>3, <3>1, <3>2 DEF IsMap
    <2> QED
      BY <2>2, <2>3
  <1>19. TypeOK'
    <2>1. told' \in [OpIds -> Seq(Outcome)]
      BY <1>1, <1>7, TellFacts DEF Inv
    <2>2. drag' \in Tabs \cup {NoTab} /\ applied' \subseteq OpIds
      BY <1>1 DEF Inv, TypeOK
    <2> QED
      BY <1>10, <1>14, <1>16, <1>17, <1>18, <2>1, <2>2 DEF TypeOK
  <1>20. AuditPasses'
    <2>1. Unique(windows')
      BY <1>14, <1>15 DEF Inv, AuditPasses, Unique
    <2>2. LiveTabs(windows') = LiveTabs(windows) \ {t}
      BY <1>14, <1>15 DEF LiveTabs
    <2>3. DOMAIN activations' \subseteq LiveTabs(windows')
      BY <1>16, <2>2 DEF Inv, AuditPasses
    <2>4. LiveTabs(windows') \cap DOMAIN tombstones' = {}
      BY <1>17, <2>2 DEF Inv, AuditPasses
    <2>5. ASSUME NEW u \in DOMAIN tombstones'
          PROVE  /\ tombstones'[u].op \in DOMAIN operations'
                 /\ u \in DOMAIN surfaces' => surfaces'[u].lifecycle = "Closing"
      <3>1. CASE u = t
        BY <1>1, <1>5, <1>10, <1>17, <1>18, <3>1
      <3>2. CASE u # t
        <4>1. u \in DOMAIN tombstones /\ tombstones'[u] = tombstones[u]
          BY <1>17, <3>2
        <4> QED
          BY <1>10, <1>18, <3>2, <4>1 DEF Inv, AuditPasses
      <3> QED
        BY <3>1, <3>2
    <2>6. ASSUME NEW v \in DOMAIN windows'
          PROVE  /\ windows'[v].hidden \subseteq windows'[v].tabs
                 /\ windows'[v].selected \in (windows'[v].tabs \ windows'[v].hidden) \cup {NoTab}
      <3>1. CASE v = w
        BY <1>4, <1>14, <3>1
      <3>2. CASE v # w
        BY <1>14, <3>2 DEF Inv, AuditPasses
      <3> QED
        BY <3>1, <3>2
    <2> QED
      BY <2>1, <2>3, <2>4, <2>5, <2>6 DEF AuditPasses
  <1>21. PendingCloseIsFenced'
    <2> SUFFICES ASSUME NEW p \in DOMAIN operations', operations'[p].kind = "closeTab",
                        ~Ended(operations'[p])
                 PROVE  LET u == operations'[p].tab IN
                        /\ u \in DOMAIN tombstones'
                        /\ tombstones'[u].op = p
                        /\ u \in DOMAIN surfaces' => surfaces'[u].op = p
      BY DEF PendingCloseIsFenced, Fenced
    <2>1. CASE p = o
      BY <1>3, <1>5, <1>10, <1>17, <1>18, <2>1
    <2>2. CASE p # o
      <3>1. p \in DOMAIN operations /\ p \notin S /\ operations'[p] = operations[p]
        BY <1>10, <1>11, <2>2
      <3>2. operations[p].tab # t
        BY <1>8, <3>1
      <3>3. LET u == operations[p].tab IN
            /\ u \in DOMAIN tombstones
            /\ tombstones[u].op = p
            /\ u \in DOMAIN surfaces => surfaces[u].op = p
        BY <3>1 DEF Inv, FenceFollowsClose, PendingCloseIsFenced, Fenced
      <3> QED
        BY <1>17, <1>18, <3>1, <3>2, <3>3
    <2> QED
      BY <2>1, <2>2
  <1>22. RetiredWindowRetiresFence'
    <2> SUFFICES ASSUME NEW u \in DOMAIN tombstones', tombstones'[u].window \notin DOMAIN windows
                 PROVE  operations'[tombstones'[u].op].cause # "Native"
      BY <1>14 DEF RetiredWindowRetiresFence, Live
    <2>1. /\ u \in DOMAIN tombstones /\ tombstones'[u] = tombstones[u]
          /\ tombstones[u].op \in DOMAIN operations
      BY <1>1, <1>5, <1>17 DEF Inv, AuditPasses
    <2>2. operations[tombstones[u].op].cause # "Native"
      BY <2>1 DEF Inv, FenceFollowsClose, RetiredWindowRetiresFence, Live
    <2> QED
      BY <1>10, <2>1, <2>2
  <1>23. \A p \in OpIds : p \notin S => told'[p] = told[p]
    BY <1>1, <1>7, TellFacts DEF Inv
  <1>24. o \notin S
    BY <1>6, <1>8
  <1>25. OutcomeReportedOnce'
    <2> SUFFICES ASSUME NEW p \in DOMAIN operations'
                 PROVE  LET op == operations'[p]
                            outcome == <<[phase |-> op.phase, cause |-> op.cause]>>
                        IN  IF ~Ended(op) THEN told'[p] = <<>>
                            ELSE told'[p] = outcome \/ (told'[p] = <<>> /\ op.kind = "closeTab"
                                                        /\ op.phase = "Completed"
                                                        /\ op.cause = "Native")
      BY DEF OutcomeReportedOnce
    <2>1. CASE p = o
      <3>1. told'[o] = <<>>
        BY <1>6, <1>23, <1>24
      <3> QED
        BY <1>3, <1>10, <2>1, <3>1
    <2>2. CASE p \in S
      <3>1. p \in OpIds /\ told[p] = <<>>
        BY <1>8, <2>2, OperationTypes DEF Inv, OutcomeReportedOnce
      <3>2. told'[p] = <<[phase |-> "Cancelled", cause |-> "SupersededByClose"]>>
        BY <1>1, <1>7, <2>2, <3>1, TellFacts DEF Inv
      <3>3. operations'[p].phase = "Cancelled" /\ operations'[p].cause = "SupersededByClose"
        BY <1>8, <1>10, <2>2
      <3> QED
        BY <1>11, <2>2, <3>2, <3>3
    <2>3. CASE p # o /\ p \notin S
      <3>1. p \in DOMAIN operations /\ operations'[p] = operations[p] /\ p \in OpIds
        BY <1>10, <2>3, OperationTypes DEF Inv
      <3>2. told'[p] = told[p]
        BY <1>23, <2>3, <3>1
      <3> QED
        BY <3>1, <3>2 DEF Inv, OutcomeReportedOnce
    <2> QED
      BY <2>1, <2>2, <2>3
  <1>26. KnownIds'
    <2>1. \A p \in OpIds \ DOMAIN operations' : told'[p] = told[p] /\ p \notin DOMAIN operations
      BY <1>8, <1>10, <1>23
    <2> QED
      BY <1>1, <1>10, <2>1 DEF Inv, KnownIds
  <1>27. ActivationFollowsTab'
    <2> SUFFICES ASSUME NEW u \in DOMAIN activations'
                 PROVE  FollowsItsTab(u)' /\ WaitsForItsLaunch(u)'
      BY DEF ActivationFollowsTab
    <2>1. /\ u \in DOMAIN activations /\ u # t /\ activations'[u] = activations[u]
          /\ FollowsItsTab(u) /\ WaitsForItsLaunch(u)
      BY <1>16 DEF Inv, ActivationFollowsTab
    <2>2. FollowsItsTab(u)'
      BY <1>14, <1>15, <2>1 DEF FollowsItsTab, Live
    <2>3. WaitsForItsLaunch(u)'
      <3> DEFINE n == activations[u].native
      <3> SUFFICES ASSUME n # NoOp
                   PROVE  /\ n \in DOMAIN operations'
                          /\ operations'[n].kind = "launch"
                          /\ operations'[n].tab = u
                          /\ operations'[n].generation = activations[u].generation
                          /\ ~Ended(operations'[n]) =>
                                u \in DOMAIN surfaces' /\ surfaces'[u].op = n
        BY <2>1 DEF WaitsForItsLaunch
      <3>1. /\ n \in DOMAIN operations
            /\ operations[n].kind = "launch"
            /\ operations[n].tab = u
            /\ operations[n].generation = activations[u].generation
            /\ ~Ended(operations[n]) => u \in DOMAIN surfaces /\ surfaces[u].op = n
        BY <2>1 DEF WaitsForItsLaunch
      <3>2. operations'[n] = operations[n]
        BY <1>8, <1>10, <2>1, <3>1
      <3> HIDE DEF n
      <3> QED
        BY <1>10, <1>18, <2>1, <3>1, <3>2
    <2> QED
      BY <2>2, <2>3
  <1>28. FenceNamesClose'
    <2> SUFFICES ASSUME NEW u \in DOMAIN tombstones'
                 PROVE  LET p == tombstones'[u].op IN
                        /\ operations'[p].kind = "closeTab"
                        /\ operations'[p].tab = u
                        /\ PendingOf(u)' \subseteq {p}
                        /\ operations'[p].cause = "Native" =>
                              /\ u \notin DOMAIN surfaces'
                              /\ operations'[p].phase \in {"Completed", "Failed"}
      BY DEF FenceNamesClose
    <2>1. CASE u = t
      <3>1. ~dormant /\ tombstones'[u].op = o
        BY <1>1, <1>5, <1>17, <2>1
      <3> QED
        BY <1>3, <1>10, <1>12, <2>1, <3>1
    <2>2. CASE u # t
      <3>1. /\ u \in DOMAIN tombstones /\ tombstones'[u] = tombstones[u]
            /\ tombstones[u].op \in DOMAIN operations
        BY <1>17, <2>2 DEF Inv, AuditPasses
      <3>2. operations[tombstones[u].op].tab = u
        BY <3>1 DEF Inv, FenceNamesClose
      <3>3. operations'[tombstones[u].op] = operations[tombstones[u].op]
        BY <1>8, <1>10, <2>2, <3>1, <3>2
      <3>4. PendingOf(u)' = PendingOf(u)
        BY <1>13, <2>2
      <3> QED
        BY <1>18, <3>1, <3>3, <3>4 DEF Inv, FenceNamesClose
    <2> QED
      BY <2>1, <2>2
  <1>29. ClosingAwaitsClose'
    <2> SUFFICES ASSUME NEW u \in DOMAIN surfaces', surfaces'[u].lifecycle = "Closing",
                        NEW p \in PendingOf(u)'
                 PROVE  operations'[p].kind = "closeTab"
      BY DEF ClosingAwaitsClose
    <2>1. CASE u = t
      BY <1>3, <1>10, <1>12, <2>1
    <2>2. CASE u # t
      <3>1. u \in DOMAIN surfaces /\ surfaces'[u] = surfaces[u]
        BY <1>18, <2>2
      <3>2. p \in PendingOf(u) /\ p \in DOMAIN operations
        BY <1>13, <2>2 DEF PendingOf
      <3> QED
        BY <1>10, <3>1, <3>2 DEF Inv, ClosingAwaitsClose
    <2> QED
      BY <2>1, <2>2
  <1> QED
    BY <1>19, <1>20, <1>21, <1>22, <1>25, <1>26, <1>27, <1>28, <1>29 DEF Inv, FenceFollowsClose

-----------------------------------------------------------------------------
(* Native events *)

LEMMA ReachedFacts ==
    ASSUME NEW kind \in {"attached", "ready", "failed", "closed"}
    PROVE  /\ kind = "attached" => Reached(kind) = "Attached"
           /\ kind = "ready" => Reached(kind) = "Ready"
           /\ kind = "failed" => Reached(kind) = "Failed"
           /\ kind = "closed" => Reached(kind) = "Closed"
  BY DEF Reached

LEMMA AfterEventType ==
    ASSUME NEW phase \in ActivationPhase, NEW kind \in {"attached", "ready", "failed", "closed"}
    PROVE  AfterEvent(phase, kind) \in ActivationPhase
  BY DEF AfterEvent, ActivationPhase, InProgress

\* What an event does to the surface of its tab.
LEMMA SurfaceAfterEvent ==
    ASSUME Inv, NEW o \in OpIds, NEW kind \in {"attached", "ready", "failed", "closed"},
           NativeEvent(o, kind), NEW t, t = operations[o].tab
    PROVE  /\ IsMap(surfaces', Tabs, Surface)
           /\ DOMAIN surfaces' \subseteq DOMAIN surfaces
           /\ \A u \in DOMAIN surfaces \ {t} : u \in DOMAIN surfaces' /\ surfaces'[u] = surfaces[u]
           /\ \A u \in DOMAIN surfaces' :
                 /\ surfaces'[u].op = surfaces[u].op
                 /\ surfaces'[u].lifecycle = "Closing" => surfaces[u].lifecycle = "Closing"
           /\ t \in DOMAIN surfaces /\ (kind = "attached" \/ surfaces[t].lifecycle = Reached(kind))
                 => t \in DOMAIN surfaces'
           /\ Fenced(t) => t \notin DOMAIN surfaces'
           /\ t \in DOMAIN surfaces /\ surfaces[t].lifecycle = "Closing" => Fenced(t)
  <1> DEFINE repeated == t \in DOMAIN surfaces /\ surfaces[t].lifecycle = Reached(kind)
             gone == kind \in {"closed", "failed"}
  <1>1. /\ o \in DOMAIN operations
        /\ ~Ended(operations[o])
        /\ Fenced(t) => gone
        /\ surfaces' = IF t \notin DOMAIN surfaces \/ repeated THEN surfaces
                       ELSE IF gone THEN Without(surfaces, {t})
                       ELSE [surfaces EXCEPT ![t].lifecycle = Reached(kind)]
    BY DEF NativeEvent
  <1>2. IsMap(surfaces, Tabs, Surface)
    BY DEF Inv, TypeOK
  <1>3. Fenced(t) /\ t \in DOMAIN surfaces => surfaces[t].lifecycle = "Closing"
    BY DEF Inv, AuditPasses, Fenced
  <1>4. t \in DOMAIN surfaces /\ surfaces[t].lifecycle = "Closing" => Fenced(t)
    <2> SUFFICES ASSUME t \in DOMAIN surfaces, surfaces[t].lifecycle = "Closing"
                 PROVE  Fenced(t)
      OBVIOUS
    <2>1. o \in PendingOf(t)
      BY <1>1 DEF PendingOf
    <2>2. operations[o].kind = "closeTab"
      BY <2>1 DEF Inv, ClosingAwaitsClose
    <2> QED
      BY <1>1, <2>2 DEF Inv, FenceFollowsClose, PendingCloseIsFenced
  <1>5. Fenced(t) => ~repeated
    BY <1>1, <1>3, ReachedFacts
  <1>6. CASE t \notin DOMAIN surfaces \/ repeated
    <2>1. surfaces' = surfaces
      BY <1>1, <1>6
    <2> QED
      BY <1>2, <1>4, <1>5, <1>6, <2>1
  <1>7. CASE t \in DOMAIN surfaces /\ ~repeated /\ gone
    <2>1. surfaces' = Without(surfaces, {t})
      BY <1>1, <1>7
    <2>2. IsMap(surfaces', Tabs, Surface)
      BY <1>2, <2>1, WithoutIsMap
    <2>3. DOMAIN surfaces' = DOMAIN surfaces \ {t}
          /\ \A u \in DOMAIN surfaces' : surfaces'[u] = surfaces[u]
      BY <2>1 DEF Without
    <2> QED
      BY <1>4, <1>7, <2>2, <2>3
  <1>8. CASE t \in DOMAIN surfaces /\ ~repeated /\ ~gone
    <2>1. Reached(kind) \in {"Attached", "Ready"}
      BY <1>8, ReachedFacts
    <2> DEFINE s == [surfaces[t] EXCEPT !.lifecycle = Reached(kind)]
    <2>2. s \in Surface /\ s.lifecycle # "Closing" /\ s.op = surfaces[t].op
      BY <1>8, <2>1, SurfaceType DEF Inv, Surface, Lifecycle
    <2>3. surfaces' = [surfaces EXCEPT ![t] = s]
      BY <1>1, <1>8
    <2> HIDE DEF s
    <2>4. /\ IsMap(surfaces', Tabs, Surface)
          /\ DOMAIN surfaces' = DOMAIN surfaces
          /\ surfaces'[t] = s
          /\ \A u \in DOMAIN surfaces \ {t} : surfaces'[u] = surfaces[u]
      BY <1>2, <1>8, <2>2, <2>3 DEF IsMap
    <2> QED
      BY <1>1, <1>4, <1>8, <2>2, <2>4
  <1> QED
    BY <1>6, <1>7, <1>8

LEMMA NativeEventInv ==
    ASSUME Inv, NEW o \in OpIds, NEW kind \in {"attached", "ready", "failed", "closed"},
           NativeEvent(o, kind)
    PROVE  Inv'
  <1> DEFINE t == operations[o].tab
             repeated == t \in DOMAIN surfaces /\ surfaces[t].lifecycle = Reached(kind)
             gone == kind \in {"closed", "failed"}
             ends == kind # "attached" /\ ~repeated
             phase == IF kind = "failed" THEN "Failed" ELSE "Completed"
             retired == {u \in {t} : gone /\ Fenced(u) /\ ~Live(tombstones[u].window)}
  <1>1. /\ o \in DOMAIN operations
        /\ ~Ended(operations[o])
        /\ Fenced(t) => gone
        /\ t \in DOMAIN activations => Concerns(o)
        /\ activations' = IF t \in DOMAIN activations
                          THEN [activations EXCEPT ![t].phase = AfterEvent(@, kind)]
                          ELSE activations
        /\ operations' = IF ends
                         THEN [operations EXCEPT ![o].phase = phase, ![o].cause = "Native"]
                         ELSE operations
        /\ Tell(IF ends THEN {o} ELSE {}, phase, "Native")
        /\ tombstones' = IF ends THEN Without(tombstones, retired) ELSE tombstones
        /\ UNCHANGED <<windows, applied, drag>>
    BY DEF NativeEvent
  <1>2. /\ IsMap(surfaces', Tabs, Surface)
        /\ DOMAIN surfaces' \subseteq DOMAIN surfaces
        /\ \A u \in DOMAIN surfaces \ {t} : u \in DOMAIN surfaces' /\ surfaces'[u] = surfaces[u]
        /\ \A u \in DOMAIN surfaces' :
              /\ surfaces'[u].op = surfaces[u].op
              /\ surfaces'[u].lifecycle = "Closing" => surfaces[u].lifecycle = "Closing"
        /\ Fenced(t) => t \notin DOMAIN surfaces'
    BY SurfaceAfterEvent
  <1>3. ~ends /\ t \in DOMAIN surfaces => t \in DOMAIN surfaces'
    BY SurfaceAfterEvent
  <1>4. Fenced(t) => ends /\ gone
    <2> SUFFICES ASSUME Fenced(t) PROVE ends /\ gone
      OBVIOUS
    <2>1. t \in DOMAIN surfaces => surfaces[t].lifecycle = "Closing"
      BY DEF Inv, AuditPasses, Fenced
    <2> QED
      BY <1>1, <2>1, ReachedFacts
  <1>5. /\ t \in DOMAIN tombstones => tombstones[t].op = o
        /\ operations[o].kind = "closeTab" => t \in DOMAIN tombstones
    <2>1. o \in PendingOf(t)
      BY <1>1 DEF PendingOf
    <2>2. t \in DOMAIN tombstones => tombstones[t].op = o
      BY <2>1 DEF Inv, FenceNamesClose
    <2> QED
      BY <1>1, <2>2 DEF Inv, FenceFollowsClose, PendingCloseIsFenced, Fenced
  <1>6. phase \in Terminal /\ phase \in {"Completed", "Failed"} /\ "Native" \in Cause
    BY DEF Terminal, Cause
  <1>7. /\ t \in DOMAIN tombstones /\ tombstones[t].window \notin DOMAIN windows
             => t \notin DOMAIN tombstones'
        /\ DOMAIN tombstones' \subseteq DOMAIN tombstones
        /\ DOMAIN tombstones \ {t} \subseteq DOMAIN tombstones'
        /\ \A u \in DOMAIN tombstones' : tombstones'[u] = tombstones[u]
        /\ IsMap(tombstones', Tabs, Tombstone)
    <2>1. IsMap(tombstones, Tabs, Tombstone)
      BY DEF Inv, TypeOK
    <2>2. CASE ends
      <3>1. tombstones' = Without(tombstones, retired)
        BY <1>1, <2>2
      <3>2. IsMap(tombstones', Tabs, Tombstone)
        BY <2>1, <3>1, WithoutIsMap
      <3>3. t \in DOMAIN tombstones /\ tombstones[t].window \notin DOMAIN windows => t \in retired
        BY <1>4 DEF Fenced, Live
      <3>4. retired \subseteq {t}
        OBVIOUS
      <3> HIDE DEF retired
      <3>5. /\ DOMAIN tombstones' = DOMAIN tombstones \ retired
            /\ \A u \in DOMAIN tombstones' : tombstones'[u] = tombstones[u]
        BY <3>1 DEF Without
      <3> QED
        BY <3>2, <3>3, <3>4, <3>5
    <2>3. CASE ~ends
      BY <1>1, <1>4, <2>1, <2>3 DEF Fenced
    <2> QED
      BY <2>2, <2>3
  <1> HIDE DEF phase, retired
  <1>8. /\ IsMap(operations', OpIds, Operation)
        /\ DOMAIN operations' = DOMAIN operations
        /\ ends => /\ Ended(operations'[o])
                   /\ operations'[o].phase = phase /\ operations'[o].cause = "Native"
        /\ ~ends => operations'[o] = operations[o]
        /\ \A p \in DOMAIN operations :
              /\ p # o => operations'[p] = operations[p]
              /\ operations'[p].kind = operations[p].kind
              /\ operations'[p].tab = operations[p].tab
              /\ operations'[p].generation = operations[p].generation
    <2>1. CASE ends
      <3>1. operations' = [operations EXCEPT ![o].phase = phase, ![o].cause = "Native"]
        BY <1>1, <2>1
      <3>2. TypeOK /\ o \in DOMAIN operations /\ phase \in Terminal /\ "Native" \in Cause
        BY <1>1, <1>6 DEF Inv
      <3>3. /\ IsMap(operations', OpIds, Operation)
            /\ DOMAIN operations' = DOMAIN operations
            /\ Ended(operations'[o])
            /\ operations'[o].phase = phase /\ operations'[o].cause = "Native"
            /\ \A p \in DOMAIN operations :
                  /\ p # o => operations'[p] = operations[p]
                  /\ operations'[p].kind = operations[p].kind
                  /\ operations'[p].tab = operations[p].tab
                  /\ operations'[p].generation = operations[p].generation
        <4> DEFINE r == [operations[o] EXCEPT !.phase = phase, !.cause = "Native"]
        <4>1. operations' = [operations EXCEPT ![o] = r]
          BY <3>1
        <4>2. operations[o] \in Operation /\ IsMap(operations, OpIds, Operation)
          BY <3>2, OperationTypes DEF TypeOK
        <4>3. /\ r \in Operation /\ Ended(r)
              /\ r.kind = operations[o].kind /\ r.tab = operations[o].tab
              /\ r.generation = operations[o].generation /\ r.phase = phase /\ r.cause = "Native"
          BY <3>2, <4>2 DEF Operation, Ended
        <4> HIDE DEF r
        <4> QED
          BY <3>2, <4>1, <4>2, <4>3 DEF IsMap
      <3> QED
        BY <2>1, <3>3
    <2>2. CASE ~ends
      <3>1. operations' = operations
        BY <1>1, <2>2
      <3> QED
        BY <2>2, <3>1 DEF Inv, TypeOK
    <2> QED
      BY <2>1, <2>2
  <1>9. \A p \in DOMAIN operations : ~Ended(operations'[p]) =>
           /\ operations'[p] = operations[p]
           /\ p = o => ~ends
    BY <1>8
  <1>10. \A u : PendingOf(u)' \subseteq PendingOf(u)
    BY <1>8, <1>9 DEF PendingOf
  <1>11. /\ IsMap(activations', Tabs, Activation)
         /\ DOMAIN activations' = DOMAIN activations
         /\ \A u \in DOMAIN activations :
               /\ activations'[u].owner = activations[u].owner
               /\ activations'[u].native = activations[u].native
               /\ activations'[u].generation = activations[u].generation
    <2>1. CASE t \in DOMAIN activations
      <3> DEFINE a == [activations[t] EXCEPT !.phase = AfterEvent(@, kind)]
      <3>1. activations[t] \in Activation /\ activations[t].phase \in ActivationPhase
        BY <2>1, ActivationType DEF Inv
      <3>2. AfterEvent(activations[t].phase, kind) \in ActivationPhase
        BY <3>1, AfterEventType
      <3>3. /\ a \in Activation /\ a.owner = activations[t].owner
            /\ a.native = activations[t].native /\ a.generation = activations[t].generation
        BY <3>1, <3>2 DEF Activation
      <3>4. activations' = [activations EXCEPT ![t] = a]
        BY <1>1, <2>1
      <3>5. IsMap(activations, Tabs, Activation)
        BY DEF Inv, TypeOK
      <3> HIDE DEF a, t
      <3>6. /\ IsMap(activations', Tabs, Activation)
            /\ DOMAIN activations' = DOMAIN activations
            /\ activations'[t] = a
            /\ \A u \in DOMAIN activations : u # t => activations'[u] = activations[u]
        BY <2>1, <3>3, <3>4, <3>5 DEF IsMap
      <3> QED
        BY <3>3, <3>6
    <2>2. CASE t \notin DOMAIN activations
      <3>1. activations' = activations
        BY <1>1, <2>2
      <3> QED
        BY <3>1 DEF Inv, TypeOK
    <2> QED
      BY <2>1, <2>2
  <1>12. TypeOK'
    <2>1. told' \in [OpIds -> Seq(Outcome)]
      BY <1>1, <1>6, TellFacts DEF Inv
    <2>2. IsMap(windows', WindowIds, Window) /\ applied' \subseteq OpIds /\ drag' \in Tabs \cup {NoTab}
      BY <1>1 DEF Inv, TypeOK
    <2> QED
      BY <1>2, <1>7, <1>8, <1>11, <2>1, <2>2 DEF TypeOK
  <1>13. AuditPasses'
    <2>1. windows' = windows
      BY <1>1
    <2>2. ASSUME NEW u \in DOMAIN tombstones'
          PROVE  /\ tombstones'[u].op \in DOMAIN operations'
                 /\ u \in DOMAIN surfaces' => surfaces'[u].lifecycle = "Closing"
      <3>1. u \in DOMAIN tombstones /\ tombstones'[u] = tombstones[u]
        BY <1>7
      <3>2. u = t => u \notin DOMAIN surfaces'
        BY <1>2, <3>1 DEF Fenced
      <3>3. u # t /\ u \in DOMAIN surfaces' => u \in DOMAIN surfaces /\ surfaces'[u] = surfaces[u]
        BY <1>2
      <3> QED
        BY <1>8, <3>1, <3>2, <3>3 DEF Inv, AuditPasses
    <2> QED
      BY <1>7, <1>11, <2>1, <2>2 DEF Inv, AuditPasses
  <1>14. PendingCloseIsFenced'
    <2> SUFFICES ASSUME NEW p \in DOMAIN operations, operations'[p].kind = "closeTab",
                        ~Ended(operations'[p])
                 PROVE  LET u == operations'[p].tab IN
                        /\ u \in DOMAIN tombstones'
                        /\ tombstones'[u].op = p
                        /\ u \in DOMAIN surfaces' => surfaces'[u].op = p
      BY <1>8 DEF PendingCloseIsFenced, Fenced
    <2>1. operations'[p] = operations[p] /\ (p = o => ~ends)
      BY <1>9
    <2>2. LET u == operations[p].tab IN
          /\ u \in DOMAIN tombstones
          /\ tombstones[u].op = p
          /\ u \in DOMAIN surfaces => surfaces[u].op = p
      BY <2>1 DEF Inv, FenceFollowsClose, PendingCloseIsFenced, Fenced
    <2>3. p # o
      BY <1>4, <1>5, <2>1, <2>2 DEF Fenced
    <2>4. operations[p].tab # t
      BY <1>5, <2>2, <2>3
    <2> QED
      BY <1>2, <1>7, <2>1, <2>2, <2>4
  <1>15. RetiredWindowRetiresFence'
    <2> SUFFICES ASSUME NEW u \in DOMAIN tombstones', tombstones'[u].window \notin DOMAIN windows
                 PROVE  operations'[tombstones'[u].op].cause # "Native"
      BY <1>1 DEF RetiredWindowRetiresFence, Live
    <2>1. u \in DOMAIN tombstones /\ tombstones'[u] = tombstones[u]
      BY <1>7
    <2>2. u # t
      BY <1>7, <2>1
    <2>3. tombstones[u].op \in DOMAIN operations /\ operations[tombstones[u].op].tab = u
      BY <2>1 DEF Inv, AuditPasses, FenceNamesClose
    <2>4. operations'[tombstones[u].op] = operations[tombstones[u].op]
      BY <1>8, <2>2, <2>3
    <2>5. operations[tombstones[u].op].cause # "Native"
      BY <2>1 DEF Inv, FenceFollowsClose, RetiredWindowRetiresFence, Live
    <2> QED
      BY <2>1, <2>4, <2>5
  <1>16. \A p \in OpIds : ~ends \/ p # o => told'[p] = told[p]
    <2>1. \A p \in OpIds : p \notin (IF ends THEN {o} ELSE {}) => told'[p] = told[p]
      BY <1>1, <1>6, TellFacts DEF Inv
    <2> QED
      BY <2>1
  <1>17. OutcomeReportedOnce'
    <2> SUFFICES ASSUME NEW p \in DOMAIN operations
                 PROVE  LET op == operations'[p]
                            outcome == <<[phase |-> op.phase, cause |-> op.cause]>>
                        IN  IF ~Ended(op) THEN told'[p] = <<>>
                            ELSE told'[p] = outcome \/ (told'[p] = <<>> /\ op.kind = "closeTab"
                                                        /\ op.phase = "Completed"
                                                        /\ op.cause = "Native")
      BY <1>8 DEF OutcomeReportedOnce
    <2>1. p \in OpIds
      BY OperationTypes DEF Inv
    <2>2. CASE p = o /\ ends
      <3>1. told[o] = <<>>
        BY <1>1 DEF Inv, OutcomeReportedOnce
      <3>2. Tell({o}, phase, "Native")
        BY <1>1, <2>2
      <3>3. told'[o] = <<[phase |-> phase, cause |-> "Native"]>>
        <4> DEFINE outcome == [phase |-> phase, cause |-> "Native"]
        <4>1. told' = [q \in OpIds |-> IF q \in {o} THEN Append(told[q], outcome) ELSE told[q]]
          BY <3>2 DEF Tell
        <4> HIDE DEF outcome
        <4>2. told'[o] = Append(<<>>, outcome)
          BY <3>1, <4>1
        <4>3. Append(<<>>, outcome) = <<outcome>>
          OBVIOUS
        <4> QED
          BY <4>2, <4>3 DEF outcome
      <3> QED
        BY <1>8, <2>2, <3>3
    <2>3. CASE ~ends \/ p # o
      <3>1. told'[p] = told[p] /\ operations'[p] = operations[p]
        BY <1>8, <1>16, <2>1, <2>3
      <3> QED
        BY <3>1 DEF Inv, OutcomeReportedOnce
    <2> QED
      BY <2>2, <2>3
  <1>18. KnownIds'
    <2>1. \A p \in OpIds \ DOMAIN operations : told'[p] = told[p]
      BY <1>1, <1>16
    <2> QED
      BY <1>1, <1>8, <2>1 DEF Inv, KnownIds
  <1>19. ActivationFollowsTab'
    <2> SUFFICES ASSUME NEW u \in DOMAIN activations
                 PROVE  FollowsItsTab(u)' /\ WaitsForItsLaunch(u)'
      BY <1>11 DEF ActivationFollowsTab
    <2>1. FollowsItsTab(u) /\ WaitsForItsLaunch(u)
      BY DEF Inv, ActivationFollowsTab
    <2>2. windows' = windows
      BY <1>1
    <2>3. FollowsItsTab(u)'
      BY <1>11, <2>1, <2>2 DEF FollowsItsTab, Live
    <2>4. WaitsForItsLaunch(u)'
      <3> DEFINE n == activations[u].native
      <3> SUFFICES ASSUME n # NoOp
                   PROVE  /\ n \in DOMAIN operations'
                          /\ operations'[n].kind = "launch"
                          /\ operations'[n].tab = u
                          /\ operations'[n].generation = activations[u].generation
                          /\ ~Ended(operations'[n]) =>
                                u \in DOMAIN surfaces' /\ surfaces'[u].op = n
        BY <1>11 DEF WaitsForItsLaunch
      <3>1. /\ n \in DOMAIN operations
            /\ operations[n].kind = "launch"
            /\ operations[n].tab = u
            /\ operations[n].generation = activations[u].generation
            /\ ~Ended(operations[n]) => u \in DOMAIN surfaces /\ surfaces[u].op = n
        BY <2>1 DEF WaitsForItsLaunch
      <3>2. u = t => n = o
        BY <1>1 DEF Concerns
      <3> HIDE DEF n
      <3>3. ~Ended(operations'[n]) => ~Ended(operations[n]) /\ (n = o => ~ends)
        BY <1>9, <3>1
      <3>4. ~Ended(operations'[n]) => u \in DOMAIN surfaces'
        BY <1>2, <1>3, <3>1, <3>2, <3>3
      <3> QED
        BY <1>2, <1>8, <3>1, <3>3, <3>4
    <2> QED
      BY <2>3, <2>4
  <1>20. FenceNamesClose'
    <2> SUFFICES ASSUME NEW u \in DOMAIN tombstones'
                 PROVE  LET p == tombstones'[u].op IN
                        /\ operations'[p].kind = "closeTab"
                        /\ operations'[p].tab = u
                        /\ PendingOf(u)' \subseteq {p}
                        /\ operations'[p].cause = "Native" =>
                              /\ u \notin DOMAIN surfaces'
                              /\ operations'[p].phase \in {"Completed", "Failed"}
      BY DEF FenceNamesClose
    <2> DEFINE p == tombstones[u].op
    <2>1. /\ u \in DOMAIN tombstones /\ tombstones'[u] = tombstones[u]
          /\ p \in DOMAIN operations
      BY <1>7 DEF Inv, AuditPasses
    <2>2. /\ operations[p].kind = "closeTab"
          /\ operations[p].tab = u
          /\ PendingOf(u) \subseteq {p}
          /\ operations[p].cause = "Native" =>
                u \notin DOMAIN surfaces /\ operations[p].phase \in {"Completed", "Failed"}
      BY <2>1 DEF Inv, FenceNamesClose
    <2> HIDE DEF p
    <2>3. PendingOf(u)' \subseteq {p}
      BY <1>10, <2>2
    <2>4. operations'[p].kind = "closeTab" /\ operations'[p].tab = u
      BY <1>8, <2>1, <2>2
    <2>5. operations'[p].cause = "Native" =>
                u \notin DOMAIN surfaces' /\ operations'[p].phase \in {"Completed", "Failed"}
      <3>1. CASE u = t
        <4>1. ends /\ p = o /\ u \notin DOMAIN surfaces'
          BY <1>2, <1>4, <1>5, <2>1, <3>1 DEF Fenced, p
        <4> QED
          BY <1>6, <1>8, <4>1
      <3>2. CASE u # t
        <4>1. operations'[p] = operations[p]
          BY <1>8, <2>1, <2>2, <3>2
        <4> QED
          BY <1>2, <2>2, <4>1
      <3> QED
        BY <3>1, <3>2
    <2> QED
      BY <2>1, <2>3, <2>4, <2>5 DEF p
  <1>21. ClosingAwaitsClose'
    <2> SUFFICES ASSUME NEW u \in DOMAIN surfaces', surfaces'[u].lifecycle = "Closing",
                        NEW p \in PendingOf(u)'
                 PROVE  operations'[p].kind = "closeTab"
      BY DEF ClosingAwaitsClose
    <2>1. u \in DOMAIN surfaces /\ surfaces[u].lifecycle = "Closing"
      BY <1>2
    <2>2. p \in PendingOf(u) /\ p \in DOMAIN operations
      BY <1>10 DEF PendingOf
    <2> QED
      BY <1>8, <2>1, <2>2 DEF Inv, ClosingAwaitsClose
  <1> QED
    BY <1>12, <1>13, <1>14, <1>15, <1>17, <1>18, <1>19, <1>20, <1>21 DEF Inv, FenceFollowsClose

-----------------------------------------------------------------------------
(* Topology commits *)

LEMMA CommitType ==
    ASSUME NEW c \in Commits
    PROVE  /\ DOMAIN c \subseteq WindowIds
           /\ \A w \in DOMAIN c : c[w] \in Layout
  <1>1. PICK S \in (SUBSET WindowIds) \ {{}} : c \in [S -> Layouts]
    BY DEF Commits
  <1> QED
    BY <1>1, LayoutAssumption

LEMMA CommittedFacts ==
    ASSUME Inv, NEW c \in Commits, NEW primary, NEW w \in DOMAIN c, NEW pick \in Tabs \cup {NoTab},
           NEW r, r = Committed(c, primary, w, pick), pick \in Selections(r, c[w].active)
    PROVE  /\ r \in Window
           /\ r.hidden \subseteq r.tabs
           /\ r.selected \in (r.tabs \ r.hidden) \cup {NoTab}
  <1>1. /\ w \in WindowIds /\ c[w].tabs \subseteq Tabs /\ c[w].hidden \subseteq Tabs
        /\ c[w].generation \in Generations /\ c[w].ui \in Numbers
    BY CommitType DEF Layout
  <1>2. (IF Live(w) THEN windows[w].placement ELSE 0) \in Numbers
    BY ZeroFacts, WindowType DEF Live, Inv
  <1>3. pick \in (r.tabs \ r.hidden) \cup {NoTab}
    BY DEF Selections
  <1> DEFINE kept == {t \in c[w].tabs : OwnerIn(c, primary, t) = w}
             n == IF Live(w) THEN windows[w].placement ELSE 0
  <1>4. r = [tabs |-> kept, hidden |-> c[w].hidden \cap kept, selected |-> pick,
             generation |-> c[w].generation, ui |-> c[w].ui, placement |-> n]
    BY DEF Committed
  <1>5. kept \subseteq Tabs /\ n \in Numbers
    BY <1>1, <1>2
  <1> HIDE DEF kept, n
  <1> QED
    BY <1>1, <1>3, <1>4, <1>5 DEF Window

LEMMA HolderFacts ==
    ASSUME NEW ws, NEW t \in LiveTabs(ws)
    PROVE  HolderIn(ws, t) \in DOMAIN ws /\ t \in ws[HolderIn(ws, t)].tabs
  BY LiveTab DEF HolderIn

\* An activation in the windows that a topology commit leaves.
LEMMA RehomedFacts ==
    ASSUME Inv, NEW ws, IsMap(ws, WindowIds, Window), NEW t \in DOMAIN activations,
           t \in LiveTabs(ws)
    PROVE  LET w == HolderIn(ws, t) IN
           /\ Rehomed(ws, t) \in Activation
           /\ Rehomed(ws, t).owner = w
           /\ Rehomed(ws, t).generation = ws[w].generation
           /\ \/ Rehomed(ws, t) = activations[t] /\ ~Moved(ws, t)
              \/ Rehomed(ws, t).native = NoOp
  <1> DEFINE w == HolderIn(ws, t)
  <1>1. w \in WindowIds /\ ws[w] \in Window
    BY HolderFacts DEF IsMap
  <1>2. ws[w].generation \in Generations
    BY <1>1 DEF Window
  <1>3. activations[t] \in Activation
    BY ActivationType DEF Inv
  <1>4. CASE ~Moved(ws, t)
    <2>1. Rehomed(ws, t) = activations[t]
      BY <1>4 DEF Rehomed
    <2>2. activations[t].owner = w /\ activations[t].generation = ws[w].generation
      BY <1>4 DEF Moved
    <2> QED
      BY <1>3, <1>4, <2>1, <2>2
  <1>5. CASE Moved(ws, t)
    <2> DEFINE f == IF LaunchFails(ws, t) THEN "Failed" ELSE activations[t].phase
               g == ws[w].generation
    <2>1. Rehomed(ws, t) = [activations[t] EXCEPT !.phase = f, !.native = NoOp, !.owner = w,
                                                  !.generation = g]
      BY <1>5 DEF Rehomed
    <2>2. f \in ActivationPhase /\ g \in Generations /\ w \in WindowIds
      BY <1>1, <1>2, <1>3 DEF Activation, ActivationPhase
    <2> HIDE DEF f, g, w
    <2>3. /\ Rehomed(ws, t) \in Activation
          /\ Rehomed(ws, t).owner = w
          /\ Rehomed(ws, t).generation = g
          /\ Rehomed(ws, t).native = NoOp
      BY <1>3, <2>1, <2>2 DEF Activation
    <2> QED
      BY <2>3 DEF g, w
  <1> QED
    BY <1>4, <1>5

LEMMA CommitTopologyInv ==
    ASSUME Inv, NEW c \in Commits, NEW primary \in WindowIds,
           NEW picks \in [DOMAIN c -> Tabs \cup {NoTab}], CommitTopology(c, primary, picks)
    PROVE  Inv'
  <1> DEFINE ws == [w \in DOMAIN windows \cup DOMAIN c |->
                  IF w \in DOMAIN c THEN Committed(c, primary, w, picks[w]) ELSE windows[w]]
             failed == {t \in DOMAIN activations : LaunchFails(ws, t)}
             S == {o \in DOMAIN operations :
                         /\ ~Ended(operations[o])
                         /\ \E t \in failed : activations[t].native = o}
  <1>1. /\ \A w \in DOMAIN c : picks[w] \in Selections(ws[w], c[w].active)
        /\ Unique(ws)
        /\ windows' = ws
        /\ activations' = [t \in DOMAIN activations \cap LiveTabs(ws) |-> Rehomed(ws, t)]
        /\ operations' = CancelAll(S, "OwnerChanged")
        /\ Tell(S, "Cancelled", "OwnerChanged")
        /\ surfaces' = Without(surfaces, failed)
        /\ UNCHANGED <<applied, tombstones, drag>>
        /\ LiveTabs(ws) \cap DOMAIN tombstones = {}
    BY DEF CommitTopology
  <1>2. /\ ws = [w \in DOMAIN ws |-> ws[w]]
        /\ DOMAIN ws = DOMAIN windows \cup DOMAIN c
        /\ \A w \in DOMAIN c : ws[w] = Committed(c, primary, w, picks[w])
        /\ \A w \in DOMAIN windows \ DOMAIN c : ws[w] = windows[w]
    OBVIOUS
  <1>3. \A t \in failed : t \in DOMAIN activations /\ LaunchFails(ws, t)
    OBVIOUS
  <1>4. \A o \in S : o \in DOMAIN operations /\ ~Ended(operations[o])
    OBVIOUS
  <1> HIDE DEF ws, failed, S
  <1>5. ASSUME NEW w \in DOMAIN ws
        PROVE  /\ w \in WindowIds /\ ws[w] \in Window
               /\ ws[w].hidden \subseteq ws[w].tabs
               /\ ws[w].selected \in (ws[w].tabs \ ws[w].hidden) \cup {NoTab}
    <2>1. CASE w \in DOMAIN c
      <3>1. ws[w] = Committed(c, primary, w, picks[w]) /\ picks[w] \in Tabs \cup {NoTab}
        BY <1>2, <2>1
      <3>2. picks[w] \in Selections(ws[w], c[w].active)
        BY <1>1, <2>1
      <3>3. w \in WindowIds
        BY <2>1, CommitType
      <3> QED
        BY <2>1, <3>1, <3>2, <3>3, CommittedFacts
    <2>2. CASE w \notin DOMAIN c
      <3>1. w \in DOMAIN windows /\ ws[w] = windows[w]
        BY <1>2, <2>2
      <3> QED
        BY <3>1, WindowType DEF Inv, AuditPasses
    <2> QED
      BY <2>1, <2>2
  <1>6. IsMap(ws, WindowIds, Window)
    BY <1>2, <1>5, MapIntro
  <1>7. "Cancelled" \in Terminal /\ "OwnerChanged" \in Cause \ {"Native"} /\ "OwnerChanged" \in Cause
    BY DEF Terminal, Cause
  <1>8. /\ IsMap(operations', OpIds, Operation)
        /\ DOMAIN operations' = DOMAIN operations
        /\ \A o \in DOMAIN operations :
              /\ o \notin S => operations'[o] = operations[o]
              /\ operations'[o].kind = operations[o].kind
              /\ operations'[o].tab = operations[o].tab
              /\ operations'[o].generation = operations[o].generation
              /\ o \in S => operations'[o].phase = "Cancelled" /\ operations'[o].cause = "OwnerChanged"
    BY <1>1, <1>7, CancelAllFacts DEF Inv
  <1>9. /\ IsMap(surfaces', Tabs, Surface)
        /\ DOMAIN surfaces' = DOMAIN surfaces \ failed
        /\ \A t \in DOMAIN surfaces' : surfaces'[t] = surfaces[t]
    <2>1. IsMap(surfaces, Tabs, Surface)
      BY DEF Inv, TypeOK
    <2>2. IsMap(surfaces', Tabs, Surface)
      BY <1>1, <2>1, WithoutIsMap
    <2> QED
      BY <1>1, <2>2 DEF Without
  <1>10. OperationsOK'
    <2>1. DOMAIN windows \subseteq DOMAIN windows'
      BY <1>1, <1>2
    <2>2. \A t \in DOMAIN surfaces' :
              /\ t \in DOMAIN surfaces
              /\ surfaces'[t].op = surfaces[t].op
              /\ surfaces'[t].lifecycle = "Closing" <=> surfaces[t].lifecycle = "Closing"
      BY <1>9
    <2>3. Tell(S, "Cancelled", "OwnerChanged") /\ UNCHANGED <<applied, tombstones>>
      BY <1>1
    <2> QED
      BY <1>4, <1>7, <1>8, <2>1, <2>2, <2>3, Ending
  <1>11. ASSUME NEW t \in DOMAIN activations'
         PROVE  /\ t \in DOMAIN activations /\ t \in LiveTabs(ws) /\ t \in Tabs
                /\ HolderIn(ws, t) \in DOMAIN ws /\ t \in ws[HolderIn(ws, t)].tabs
                /\ activations'[t] \in Activation
                /\ activations'[t].owner = HolderIn(ws, t)
                /\ activations'[t].generation = ws[HolderIn(ws, t)].generation
                /\ \/ activations'[t] = activations[t] /\ t \notin failed
                   \/ activations'[t].native = NoOp
    <2>1. t \in DOMAIN activations /\ t \in LiveTabs(ws) /\ activations'[t] = Rehomed(ws, t)
      BY <1>1
    <2>2. t \in Tabs
      BY <2>1, ActivationType DEF Inv
    <2>3. t \in failed => Moved(ws, t)
      BY <1>3 DEF LaunchFails
    <2> QED
      BY <1>6, <2>1, <2>2, <2>3, HolderFacts, RehomedFacts
  <1>12. TypeOK'
    <2>1. activations' = [t \in DOMAIN activations' |-> activations'[t]]
      BY <1>1
    <2>2. IsMap(activations', Tabs, Activation)
      BY <1>11, <2>1, MapIntro
    <2>3. told' \in [OpIds -> Seq(Outcome)]
      BY <1>1, <1>7, TellFacts DEF Inv
    <2>4. /\ applied' \subseteq OpIds /\ drag' \in Tabs \cup {NoTab}
          /\ IsMap(tombstones', Tabs, Tombstone)
      BY <1>1 DEF Inv, TypeOK
    <2> QED
      BY <1>1, <1>6, <1>8, <1>9, <2>2, <2>3, <2>4 DEF TypeOK
  <1>13. AuditPasses'
    <2>1. DOMAIN activations' \subseteq LiveTabs(ws)
      BY <1>11
    <2>2. tombstones' = tombstones /\ windows' = ws
      BY <1>1
    <2>3. \A t \in DOMAIN tombstones :
             /\ tombstones[t].op \in DOMAIN operations'
             /\ t \in DOMAIN surfaces' => surfaces'[t].lifecycle = "Closing"
      BY <1>8, <1>9 DEF Inv, AuditPasses
    <2> QED
      BY <1>1, <1>5, <2>1, <2>2, <2>3 DEF AuditPasses
  <1>14. ActivationFollowsTab'
    <2> SUFFICES ASSUME NEW t \in DOMAIN activations'
                 PROVE  FollowsItsTab(t)' /\ WaitsForItsLaunch(t)'
      BY DEF ActivationFollowsTab
    <2> DEFINE w == HolderIn(ws, t)
    <2>1. /\ w \in DOMAIN ws /\ t \in ws[w].tabs /\ activations'[t].owner = w
          /\ activations'[t].generation = ws[w].generation
      BY <1>11
    <2> HIDE DEF w
    <2>2. ws[w].generation \in Nat
      <3>1. ws[w].generation \in Generations
        BY <1>5, <2>1 DEF Window
      <3> QED
        BY <3>1, NumbersAreNat
    <2>3. ws[w].generation <= ws[w].generation
      BY <2>2
    <2>4. FollowsItsTab(t)'
      BY <1>1, <2>1, <2>3 DEF FollowsItsTab, Live
    <2>5. WaitsForItsLaunch(t)'
      <3> DEFINE n == activations'[t].native
      <3> SUFFICES ASSUME n # NoOp
                   PROVE  /\ n \in DOMAIN operations'
                          /\ operations'[n].kind = "launch"
                          /\ operations'[n].tab = t
                          /\ operations'[n].generation = activations'[t].generation
                          /\ ~Ended(operations'[n]) =>
                                t \in DOMAIN surfaces' /\ surfaces'[t].op = n
        BY DEF WaitsForItsLaunch
      <3>1. t \in DOMAIN activations /\ activations'[t] = activations[t] /\ t \notin failed
        BY <1>11
      <3>2. WaitsForItsLaunch(t)
        BY <3>1 DEF Inv, ActivationFollowsTab
      <3>3. /\ n \in DOMAIN operations
            /\ operations[n].kind = "launch"
            /\ operations[n].tab = t
            /\ operations[n].generation = activations'[t].generation
            /\ ~Ended(operations[n]) => t \in DOMAIN surfaces /\ surfaces[t].op = n
        BY <3>1, <3>2 DEF WaitsForItsLaunch
      <3>4. ~Ended(operations'[n]) => ~Ended(operations[n])
        BY <1>4, <1>8, <3>3
      <3> HIDE DEF n
      <3> QED
        BY <1>8, <1>9, <3>1, <3>3, <3>4
    <2> QED
      BY <2>4, <2>5
  <1> QED
    BY <1>10, <1>12, <1>13, <1>14, InvParts

-----------------------------------------------------------------------------
(* Every step, and what follows from it *)

LEMMA NextInv ==
    ASSUME Inv, [Next]_vars
    PROVE  Inv'
  <1>1. CASE WindowStep
    <2>1. PICK w \in WindowIds :
             \/ EnsureWindow(w)
             \/ RemoveWindow(w)
             \/ \E g \in Generations :
                   \/ SetWindowGeneration(w, g)
                   \/ InitializeWindowContext(w, g)
                   \/ \E n \in Numbers : CommitPlacement(w, g, n)
             \/ \E S \in SUBSET Tabs : SeedDormantTabs(w, S)
      BY <1>1 DEF WindowStep
    <2> QED
      BY <2>1, EnsureWindowInv, RemoveWindowInv, SetWindowGenerationInv,
         InitializeWindowContextInv, CommitPlacementInv, SeedDormantTabsInv
  <1>2. CASE TopologyStep
    BY <1>2, CommitTopologyInv DEF TopologyStep
  <1>3. CASE TabStep
    <2>1. PICK t \in Tabs :
             \/ \E id \in OpIds, w \in WindowIds :
                   BeginTabActivation(id, t, w) \/ ActivateTab(id, t, w)
             \/ \E id \in OpIds \cup {DormantAttempt}, phase \in ActivationPhase :
                   SetTabActivationPhase(id, t, phase)
             \/ StartDrag(t)
      BY <1>3 DEF TabStep
    <2> QED
      BY <2>1, BeginTabActivationInv, ActivateTabInv, SetTabActivationPhaseInv, StartDragInv
  <1>4. CASE OperationStep
    <2>1. PICK t \in Tabs, a \in Attempts, w \in WindowIds :
             \/ RecreateTab(t, a, w)
             \/ \E o \in OpIds, g \in Generations :
                   \/ BeginOperation(o, t, a, w, g)
                   \/ \E s \in Tabs \cup {NoTab} : CloseTab(o, t, a, w, g, s)
      BY <1>4 DEF OperationStep
    <2> QED
      BY <2>1, RecreateTabInv, BeginOperationInv, CloseTabInv
  <1>5. CASE EventStep
    BY <1>5, NativeEventInv, FailEventStreamInv, TerminalizeOperationInv DEF EventStep
  <1>6. CASE EndDrag
    BY <1>6, EndDragInv
  <1>7. CASE UNCHANGED vars
    BY <1>7, StutterInv
  <1> QED
    BY <1>1, <1>2, <1>3, <1>4, <1>5, <1>6, <1>7 DEF Next

\* The inductive invariant holds in every reachable state.
THEOREM InvHolds == Spec => []Inv
  BY InitInv, NextInv, PTL DEF Spec

\* Every record has its type, whatever order the intents come in.
THEOREM Typing == Spec => []TypeOK
  <1>1. Inv => TypeOK
    BY DEF Inv
  <1> QED
    BY <1>1, InvHolds, PTL

\* validate_state accepts the state that each modelled intent leaves.
THEOREM AuditAlwaysPasses == Spec => []AuditPasses
  <1>1. Inv => AuditPasses
    BY DEF Inv
  <1> QED
    BY <1>1, InvHolds, PTL

\* The fence of a closed tab lasts exactly as long as its close: it is not
\* retired while the close is pending and not kept once the window is gone.
THEOREM FenceIsExact == Spec => []FenceFollowsClose
  <1>1. Inv => FenceFollowsClose
    BY DEF Inv
  <1> QED
    BY <1>1, InvHolds, PTL

\* Each operation that ended was reported once, with the outcome it keeps.
THEOREM ReportsAreExact == Spec => []OutcomeReportedOnce
  <1>1. Inv => OutcomeReportedOnce
    BY DEF Inv
  <1> QED
    BY <1>1, InvHolds, PTL

\* A tab that moves takes its activation and its launch along.
THEOREM ActivationsFollow == Spec => []ActivationFollowsTab
  <1>1. Inv => ActivationFollowsTab
    BY DEF Inv
  <1> QED
    BY <1>1, InvHolds, PTL

-----------------------------------------------------------------------------
(* A closed tab stays closed *)

\* The steps that change the surfaces, and the steps that change the windows.
LEMMA SurfaceSteps ==
    ASSUME [Next]_vars
    PROVE  \/ UNCHANGED surfaces
           \/ \E S : surfaces' = Without(surfaces, S)
           \/ \E o \in OpIds, t \in Tabs, a \in Attempts, w \in WindowIds, g \in Generations :
                 \/ BeginOperation(o, t, a, w, g)
                 \/ \E s \in Tabs \cup {NoTab} : CloseTab(o, t, a, w, g, s)
           \/ \E o \in OpIds, kind \in {"attached", "ready", "failed", "closed"} :
                 NativeEvent(o, kind)
           \/ \E S \in SUBSET OpIds : FailEventStream(S)
  <1>1. CASE WindowStep
    <2>1. ASSUME NEW w, NEW S, SeedDormantTabs(w, S) PROVE surfaces' = Without(surfaces, S)
      BY <2>1 DEF SeedDormantTabs
    <2>2. ASSUME NEW w, EnsureWindow(w) \/ RemoveWindow(w) PROVE UNCHANGED surfaces
      BY <2>2 DEF EnsureWindow, RemoveWindow
    <2>3. ASSUME NEW w, NEW g, SetWindowGeneration(w, g) \/ InitializeWindowContext(w, g)
          PROVE  UNCHANGED surfaces
      BY <2>3 DEF SetWindowGeneration, InitializeWindowContext
    <2>4. ASSUME NEW w, NEW g, NEW n, CommitPlacement(w, g, n) PROVE UNCHANGED surfaces
      BY <2>4 DEF CommitPlacement
    <2> QED
      BY <1>1, <2>1, <2>2, <2>3, <2>4 DEF WindowStep
  <1>2. CASE TopologyStep
    BY <1>2, ZenonT(30) DEF TopologyStep, CommitTopology
  <1>3. CASE TabStep
    BY <1>3 DEF TabStep, BeginTabActivation, ActivateTab, SetTabActivationPhase, StartDrag
  <1>4. CASE OperationStep
    <2>1. PICK t \in Tabs, a \in Attempts, w \in WindowIds :
             \/ RecreateTab(t, a, w)
             \/ \E o \in OpIds, g \in Generations :
                   \/ BeginOperation(o, t, a, w, g)
                   \/ \E s \in Tabs \cup {NoTab} : CloseTab(o, t, a, w, g, s)
      BY <1>4 DEF OperationStep
    <2>2. CASE RecreateTab(t, a, w)
      BY <2>2 DEF RecreateTab
    <2> QED
      BY <2>1, <2>2
  <1>5. CASE EventStep
    <2>1. ASSUME NEW o, NEW phase, TerminalizeOperation(o, phase) PROVE UNCHANGED surfaces
      BY <2>1 DEF TerminalizeOperation
    <2> QED
      BY <1>5, <2>1 DEF EventStep
  <1>6. CASE EndDrag \/ UNCHANGED vars
    BY <1>6 DEF EndDrag, vars
  <1> QED
    BY <1>1, <1>2, <1>3, <1>4, <1>5, <1>6 DEF Next

LEMMA WindowSteps ==
    ASSUME [Next]_vars
    PROVE  \/ UNCHANGED windows
           \/ \E w \in WindowIds : EnsureWindow(w) \/ RemoveWindow(w)
           \/ \E w \in WindowIds, g \in Generations :
                 \/ SetWindowGeneration(w, g)
                 \/ InitializeWindowContext(w, g)
                 \/ \E n \in Numbers : CommitPlacement(w, g, n)
           \/ \E c \in Commits, primary \in WindowIds :
                 \E picks \in [DOMAIN c -> Tabs \cup {NoTab}] : CommitTopology(c, primary, picks)
           \/ \E id \in OpIds, t \in Tabs, w \in WindowIds : ActivateTab(id, t, w)
           \/ \E o \in OpIds, t \in Tabs, a \in Attempts, w \in WindowIds, g \in Generations,
                 s \in Tabs \cup {NoTab} : CloseTab(o, t, a, w, g, s)
  <1>1. CASE WindowStep
    <2>1. ASSUME NEW w, NEW S, SeedDormantTabs(w, S) PROVE UNCHANGED windows
      BY <2>1 DEF SeedDormantTabs
    <2> QED
      BY <1>1, <2>1 DEF WindowStep
  <1>2. CASE TopologyStep
    BY <1>2 DEF TopologyStep
  <1>3. CASE TabStep
    <2>1. ASSUME NEW id, NEW t, NEW w, BeginTabActivation(id, t, w) PROVE UNCHANGED windows
      BY <2>1 DEF BeginTabActivation
    <2>2. ASSUME NEW id, NEW t, NEW p, SetTabActivationPhase(id, t, p) PROVE UNCHANGED windows
      BY <2>2 DEF SetTabActivationPhase
    <2>3. ASSUME NEW t, StartDrag(t) PROVE UNCHANGED windows
      BY <2>3 DEF StartDrag
    <2> QED
      BY <1>3, <2>1, <2>2, <2>3 DEF TabStep
  <1>4. CASE OperationStep
    <2>1. PICK t \in Tabs, a \in Attempts, w \in WindowIds :
             \/ RecreateTab(t, a, w)
             \/ \E o \in OpIds, g \in Generations :
                   \/ BeginOperation(o, t, a, w, g)
                   \/ \E s \in Tabs \cup {NoTab} : CloseTab(o, t, a, w, g, s)
      BY <1>4 DEF OperationStep
    <2>2. CASE RecreateTab(t, a, w)
      BY <2>2 DEF RecreateTab
    <2>3. ASSUME NEW o, NEW g, BeginOperation(o, t, a, w, g) PROVE UNCHANGED windows
      BY <2>3 DEF BeginOperation
    <2> QED
      BY <2>1, <2>2, <2>3
  <1>5. CASE EventStep
    <2>1. ASSUME NEW o, NEW phase, TerminalizeOperation(o, phase) PROVE UNCHANGED windows
      BY <2>1 DEF TerminalizeOperation
    <2>2. ASSUME NEW o, NEW kind, NativeEvent(o, kind) PROVE UNCHANGED windows
      BY <2>2 DEF NativeEvent
    <2>3. ASSUME NEW S, FailEventStream(S) PROVE UNCHANGED windows
      BY <2>3 DEF FailEventStream
    <2> QED
      BY <1>5, <2>1, <2>2, <2>3 DEF EventStep
  <1>6. CASE EndDrag \/ UNCHANGED vars
    BY <1>6 DEF EndDrag, vars
  <1> QED
    BY <1>1, <1>2, <1>3, <1>4, <1>5, <1>6 DEF Next

LEMMA ClosingStays ==
    ASSUME Inv, [Next]_vars, NEW t \in DOMAIN surfaces \cap DOMAIN surfaces',
           surfaces[t].lifecycle = "Closing"
    PROVE  surfaces'[t].lifecycle = "Closing"
  <1>1. CASE UNCHANGED surfaces
    BY <1>1
  <1>2. CASE \E S : surfaces' = Without(surfaces, S)
    BY <1>2 DEF Without
  <1>3. ASSUME NEW o, NEW u, NEW a, NEW w, NEW g, BeginOperation(o, u, a, w, g)
        PROVE  surfaces'[t].lifecycle = "Closing"
    <2>1. u \notin DOMAIN surfaces
          /\ surfaces' = Put(surfaces, u, [lifecycle |-> "Desired", op |-> o])
      BY <1>3 DEF BeginOperation
    <2> QED
      BY <2>1 DEF Put
  <1>4. ASSUME NEW o, NEW u, NEW a, NEW w, NEW g, NEW s, CloseTab(o, u, a, w, g, s)
        PROVE  surfaces'[t].lifecycle = "Closing"
    <2>1. surfaces' = IF u \notin DOMAIN surfaces THEN surfaces
                      ELSE [surfaces EXCEPT ![u].lifecycle = "Closing", ![u].op = o]
      BY <1>4 DEF CloseTab
    <2>2. CASE u \notin DOMAIN surfaces \/ u # t
      BY <2>1, <2>2
    <2>3. CASE u \in DOMAIN surfaces /\ u = t
      <3> DEFINE r == [surfaces[t] EXCEPT !.lifecycle = "Closing", !.op = o]
      <3>1. r.lifecycle = "Closing"
        BY <2>3, SurfaceType DEF Surface, Inv
      <3>2. surfaces' = [surfaces EXCEPT ![t] = r]
        BY <2>1, <2>3
      <3> HIDE DEF r
      <3> QED
        BY <3>1, <3>2
    <2> QED
      BY <2>2, <2>3
  <1>5. ASSUME NEW o \in OpIds, NEW kind \in {"attached", "ready", "failed", "closed"},
               NativeEvent(o, kind)
        PROVE  surfaces'[t].lifecycle = "Closing"
    <2> DEFINE u == operations[o].tab
    <2>1. /\ \A v \in DOMAIN surfaces \ {u} : surfaces'[v] = surfaces[v]
          /\ Fenced(u) => u \notin DOMAIN surfaces'
          /\ u \in DOMAIN surfaces /\ surfaces[u].lifecycle = "Closing" => Fenced(u)
      BY <1>5, SurfaceAfterEvent
    <2> QED
      BY <2>1
  <1>6. ASSUME NEW S, FailEventStream(S)
        PROVE  surfaces'[t].lifecycle = "Closing"
    <2>1. PICK lost : surfaces' = [u \in DOMAIN surfaces |->
                           IF u \in Orphans(lost) THEN [surfaces[u] EXCEPT !.lifecycle = "Failed"]
                                            ELSE surfaces[u]]
      BY <1>6 DEF FailEventStream
    <2>2. t \notin Orphans(lost)
      BY DEF Orphans
    <2> QED
      BY <2>1, <2>2
  <1> QED
    BY <1>1, <1>2, <1>3, <1>4, <1>5, <1>6, SurfaceSteps

\* A surface that appears is that of a launch that was allowed to begin.
LEMMA SurfaceAppears ==
    ASSUME Inv, [Next]_vars, NEW t \in DOMAIN surfaces' \ DOMAIN surfaces, t \in DOMAIN tombstones
    PROVE  /\ Ended(operations[tombstones[t].op])
           /\ operations'[surfaces'[t].op].attempt # operations[tombstones[t].op].attempt
  <1>1. ASSUME NEW o, NEW u, NEW a, NEW w, NEW g, BeginOperation(o, u, a, w, g)
        PROVE  /\ Ended(operations[tombstones[t].op])
               /\ operations'[surfaces'[t].op].attempt # operations[tombstones[t].op].attempt
    <2> DEFINE launch == [kind |-> "launch", tab |-> u, attempt |-> a,
                          generation |-> g, phase |-> "Pending", cause |-> "None"]
               superseded == IF Fenced(u) THEN PendingOf(u) ELSE {}
    <2>1. /\ surfaces' = Put(surfaces, u, [lifecycle |-> "Desired", op |-> o])
          /\ Fenced(u) => Relaunchable(u, a)
          /\ operations' = Put(CancelAll(superseded, "SupersededByRelaunch"), o, launch)
      BY <1>1 DEF BeginOperation
    <2>2. t = u /\ surfaces'[t].op = o
      BY <2>1 DEF Put
    <2>3. operations'[o] = launch
      BY <2>1 DEF Put
    <2>4. launch.attempt = a
      OBVIOUS
    <2> HIDE DEF launch
    <2> QED
      BY <2>1, <2>2, <2>3, <2>4 DEF Fenced, Relaunchable
  <1>2. ASSUME NEW o, NEW u, NEW a, NEW w, NEW g, NEW s, CloseTab(o, u, a, w, g, s)
        PROVE  FALSE
    <2>1. surfaces' = IF u \notin DOMAIN surfaces THEN surfaces
                      ELSE [surfaces EXCEPT ![u].lifecycle = "Closing", ![u].op = o]
      BY <1>2 DEF CloseTab
    <2> QED
      BY <2>1
  <1>3. ASSUME NEW o \in OpIds, NEW kind \in {"attached", "ready", "failed", "closed"},
               NativeEvent(o, kind)
        PROVE  FALSE
    BY <1>3, SurfaceAfterEvent
  <1>4. ASSUME NEW S, FailEventStream(S)
        PROVE  FALSE
    BY <1>4 DEF FailEventStream
  <1>5. ASSUME NEW S, surfaces' = Without(surfaces, S)
        PROVE  FALSE
    BY <1>5 DEF Without
  <1> QED
    BY <1>1, <1>2, <1>3, <1>4, <1>5, SurfaceSteps

\* No step puts a fenced tab into a window.
LEMMA FencedStaysOut ==
    ASSUME Inv, [Next]_vars, NEW t \in DOMAIN tombstones
    PROVE  t \notin LiveTabs(windows')
  <1>1. t \notin LiveTabs(windows)
    BY DEF Inv, AuditPasses
  <1>2. ASSUME \A w \in DOMAIN windows' : windows'[w].tabs \subseteq LiveTabs(windows)
        PROVE  t \notin LiveTabs(windows')
    BY <1>1, <1>2 DEF LiveTabs
  <1>3. ASSUME NEW w, NEW r, windows' = Put(windows, w, r),
               r.tabs \subseteq IF Live(w) THEN windows[w].tabs ELSE {}
        PROVE  t \notin LiveTabs(windows')
    <2>1. \A v \in DOMAIN windows' : windows'[v].tabs \subseteq LiveTabs(windows)
      BY <1>3 DEF Put, LiveTabs, Live
    <2> QED
      BY <1>2, <2>1
  <1>4. ASSUME NEW w \in WindowIds, EnsureWindow(w) PROVE t \notin LiveTabs(windows')
    BY <1>3, <1>4, DefaultFacts DEF EnsureWindow
  <1>5. ASSUME NEW w, RemoveWindow(w) PROVE t \notin LiveTabs(windows')
    <2>1. \A v \in DOMAIN windows' : v \in DOMAIN windows /\ windows'[v] = windows[v]
      BY <1>5 DEF RemoveWindow, Without
    <2> QED
      BY <1>1, <2>1 DEF LiveTabs
  <1>6. ASSUME NEW w \in WindowIds, NEW g \in Generations, SetWindowGeneration(w, g)
        PROVE  t \notin LiveTabs(windows')
    <2>1. windows' = Put(windows, w, Placed(w, g, 0))
      BY <1>6 DEF SetWindowGeneration, Placed, Current
    <2>2. Placed(w, g, 0).tabs = IF Live(w) THEN windows[w].tabs ELSE {}
      BY PlacedFacts, ZeroFacts
    <2> QED
      BY <1>3, <2>1, <2>2
  <1>7. ASSUME NEW w \in WindowIds, NEW g \in Generations, InitializeWindowContext(w, g)
        PROVE  t \notin LiveTabs(windows')
    <2> DEFINE r == IF ~Live(w) THEN At(w, g)
                    ELSE IF g > windows[w].generation THEN Placed(w, g, 0) ELSE Current(w)
    <2>1. windows' = Put(windows, w, r)
      BY <1>7 DEF InitializeWindowContext, At, Placed, Current
    <2>2. r.tabs = IF Live(w) THEN windows[w].tabs ELSE {}
      BY AtFacts, PlacedFacts, CurrentFacts, ZeroFacts
    <2> HIDE DEF r
    <2> QED
      BY <1>3, <2>1, <2>2
  <1>8. ASSUME NEW w \in WindowIds, NEW g \in Generations, NEW n \in Numbers,
               CommitPlacement(w, g, n)
        PROVE  t \notin LiveTabs(windows')
    <2>1. windows' = Put(windows, w, Placed(w, g, n))
      BY <1>8 DEF CommitPlacement, Placed, Current
    <2>2. Placed(w, g, n).tabs = IF Live(w) THEN windows[w].tabs ELSE {}
      BY PlacedFacts
    <2> QED
      BY <1>3, <2>1, <2>2
  <1>9. ASSUME NEW c, NEW primary, NEW picks, CommitTopology(c, primary, picks)
        PROVE  t \notin LiveTabs(windows')
    BY <1>9 DEF CommitTopology
  <1>10. ASSUME NEW id, NEW u \in Tabs, NEW w, ActivateTab(id, u, w)
         PROVE  t \notin LiveTabs(windows')
    <2>1. w \in DOMAIN windows
          /\ windows' = IF windows[w].selected = u THEN windows
                        ELSE [windows EXCEPT ![w] = Select(windows[w], u)]
      BY <1>10 DEF ActivateTab, Visible, Live
    <2>2. Select(windows[w], u).tabs = windows[w].tabs
      BY <2>1, WindowType, WindowEdits DEF Inv
    <2>3. \A v \in DOMAIN windows' : v \in DOMAIN windows /\ windows'[v].tabs = windows[v].tabs
      BY <2>1, <2>2
    <2> QED
      BY <1>1, <2>3 DEF LiveTabs
  <1>11. ASSUME NEW o, NEW u, NEW a, NEW w, NEW g, NEW s \in Tabs \cup {NoTab},
                CloseTab(o, u, a, w, g, s)
         PROVE  t \notin LiveTabs(windows')
    <2> DEFINE r == IF s = NoTab THEN RemoveTab(windows[w], u)
                    ELSE Select(RemoveTab(windows[w], u), s)
    <2>1. /\ w \in DOMAIN windows /\ u \in windows[w].tabs
          /\ s # NoTab => Visible(w, s) /\ s # u
          /\ windows' = [windows EXCEPT ![w] = r]
      BY <1>11 DEF CloseTab, Live
    <2>2. r.tabs = windows[w].tabs \ {u}
      BY <2>1, ClosedWindow
    <2> HIDE DEF r
    <2>3. \A v \in DOMAIN windows' : v \in DOMAIN windows /\ windows'[v].tabs \subseteq windows[v].tabs
      BY <2>1, <2>2
    <2> QED
      BY <1>1, <2>3 DEF LiveTabs
  <1> QED
    BY <1>1, <1>4, <1>5, <1>6, <1>7, <1>8, <1>9, <1>10, <1>11, WindowSteps

\* Nothing that was on its way when a tab was closed revives its surface, its
\* activation or the tab: it returns under another attempt, after its close.
THEOREM ClosedTabsStayClosed == Spec => ClosedStaysClosed
  <1>1. Inv /\ [Next]_vars =>
          [\A t \in DOMAIN surfaces \cap DOMAIN surfaces' :
              surfaces[t].lifecycle = "Closing" => surfaces'[t].lifecycle = "Closing"]_vars
    BY ClosingStays
  <1>2. Inv /\ [Next]_vars =>
          [\A t \in DOMAIN tombstones :
              /\ t \notin LiveTabs(windows')
              /\ t \notin DOMAIN activations'
              /\ t \in DOMAIN surfaces' /\ surfaces'[t].lifecycle # "Closing" =>
                    /\ Ended(operations[tombstones[t].op])
                    /\ operations'[surfaces'[t].op].attempt
                          # operations[tombstones[t].op].attempt]_vars
    <2> SUFFICES ASSUME Inv, [Next]_vars, NEW t \in DOMAIN tombstones
                 PROVE  /\ t \notin LiveTabs(windows')
                        /\ t \notin DOMAIN activations'
                        /\ t \in DOMAIN surfaces' /\ surfaces'[t].lifecycle # "Closing" =>
                              /\ Ended(operations[tombstones[t].op])
                              /\ operations'[surfaces'[t].op].attempt
                                    # operations[tombstones[t].op].attempt
      OBVIOUS
    <2>1. t \notin LiveTabs(windows')
      BY FencedStaysOut
    <2>2. t \notin DOMAIN activations'
      BY <2>1, NextInv DEF Inv, AuditPasses
    <2>3. t \in DOMAIN surfaces => surfaces[t].lifecycle = "Closing"
      BY DEF Inv, AuditPasses
    <2> QED
      BY <2>1, <2>2, <2>3, ClosingStays, SurfaceAppears
  <1> QED
    BY <1>1, <1>2, InvHolds, PTL
       DEF Spec, ClosedStaysClosed, ClosingIsNotRevived, FencedTabStaysClosed

-----------------------------------------------------------------------------
(* Commits are ordered *)

\* What a step may do to a window that stays.
InOrder(before, after) ==
    \/ after.generation > before.generation
    \/ /\ after.generation = before.generation
       /\ after.placement >= before.placement
       /\ after.ui >= before.ui \/ after.ui = 0

LEMMA SameIsInOrder ==
    ASSUME Inv, NEW v \in DOMAIN windows, NEW r, r.generation = windows[v].generation,
           r.placement = windows[v].placement, r.ui = windows[v].ui
    PROVE  InOrder(windows[v], r)
  <1>1. windows[v].placement \in Nat /\ windows[v].ui \in Nat
    BY WindowType, NumbersAreNat DEF Inv
  <1> QED
    BY <1>1 DEF InOrder

LEMMA WindowsInOrder ==
    ASSUME Inv, [Next]_vars, NEW v \in DOMAIN windows \cap DOMAIN windows'
    PROVE  InOrder(windows[v], windows'[v])
  <1>1. /\ windows[v].generation \in Nat /\ windows[v].placement \in Nat /\ windows[v].ui \in Nat
        /\ windows[v] \in Window /\ v \in WindowIds
    BY WindowType, NumbersAreNat DEF Inv
  <1>2. windows'[v] = windows[v] => InOrder(windows[v], windows'[v])
    BY SameIsInOrder
  <1>3. ASSUME NEW w, NEW r, windows' = Put(windows, w, r),
               v = w => InOrder(windows[v], r)
        PROVE  InOrder(windows[v], windows'[v])
    BY <1>2, <1>3 DEF Put
  <1>4. ASSUME NEW w, EnsureWindow(w) PROVE InOrder(windows[v], windows'[v])
    BY <1>3, <1>4 DEF EnsureWindow, Live
  <1>5. ASSUME NEW w, RemoveWindow(w) PROVE InOrder(windows[v], windows'[v])
    BY <1>2, <1>5 DEF RemoveWindow, Without
  <1>6. ASSUME NEW w \in WindowIds, NEW g \in Generations, SetWindowGeneration(w, g)
        PROVE  InOrder(windows[v], windows'[v])
    <2>1. /\ windows' = Put(windows, w, Placed(w, g, 0))
          /\ v = w => g > windows[v].generation
      BY <1>6 DEF SetWindowGeneration, Placed, Current, Live
    <2>2. Placed(w, g, 0).generation = g
      BY PlacedFacts, ZeroFacts
    <2> QED
      BY <1>3, <2>1, <2>2 DEF InOrder
  <1>7. ASSUME NEW w \in WindowIds, NEW g \in Generations, InitializeWindowContext(w, g)
        PROVE  InOrder(windows[v], windows'[v])
    <2> DEFINE r == IF ~Live(w) THEN At(w, g)
                    ELSE IF g > windows[w].generation THEN Placed(w, g, 0) ELSE windows[w]
    <2>1. windows' = Put(windows, w, r)
      BY <1>7 DEF InitializeWindowContext, At, Placed, Current
    <2>2. Placed(w, g, 0).generation = g
      BY PlacedFacts, ZeroFacts
    <2>3. ASSUME v = w PROVE InOrder(windows[v], r)
      <3>1. CASE g > windows[w].generation
        <4>1. r = Placed(w, g, 0)
          BY <2>3, <3>1 DEF Live
        <4> QED
          BY <2>2, <2>3, <3>1, <4>1 DEF InOrder
      <3>2. CASE ~(g > windows[w].generation)
        <4>1. r = windows[v]
          BY <2>3, <3>2 DEF Live
        <4> QED
          BY <4>1, SameIsInOrder
      <3> QED
        BY <3>1, <3>2
    <2> HIDE DEF r
    <2> QED
      BY <1>3, <2>1, <2>3
  <1>8. ASSUME NEW w \in WindowIds, NEW g \in Generations, NEW n \in Numbers,
               CommitPlacement(w, g, n)
        PROVE  InOrder(windows[v], windows'[v])
    <2>1. /\ windows' = Put(windows, w, Placed(w, g, n))
          /\ v = w => \/ g > windows[v].generation
                      \/ g = windows[v].generation /\ n > windows[v].placement
      BY <1>8 DEF CommitPlacement, Placed, Current, Live
    <2>2. /\ Placed(w, g, n).generation = g
          /\ Placed(w, g, n).placement = n
          /\ v = w => Placed(w, g, n).ui = windows[v].ui
      BY PlacedFacts DEF Current, Live
    <2>3. n \in Nat
      BY NumbersAreNat
    <2>4. v = w => InOrder(windows[v], Placed(w, g, n))
      BY <1>1, <2>1, <2>2, <2>3 DEF InOrder
    <2> QED
      BY <1>3, <2>1, <2>4
  <1>9. ASSUME NEW c \in Commits, NEW primary, NEW picks, CommitTopology(c, primary, picks)
        PROVE  InOrder(windows[v], windows'[v])
    <2>1. /\ ~Stale(c)
          /\ windows' = [w \in DOMAIN windows \cup DOMAIN c |->
                  IF w \in DOMAIN c THEN Committed(c, primary, w, picks[w]) ELSE windows[w]]
      BY <1>9 DEF CommitTopology
    <2>2. CASE v \in DOMAIN c
      <3>1. windows'[v] = Committed(c, primary, v, picks[v])
        BY <2>1, <2>2
      <3>2. /\ windows'[v].generation = c[v].generation
            /\ windows'[v].ui = c[v].ui
            /\ windows'[v].placement = windows[v].placement
        BY <3>1 DEF Committed, Live
      <3>3. c[v].generation \in Nat /\ c[v].ui \in Nat
        <4>1. c[v] \in Layout
          BY <2>2, CommitType
        <4> QED
          BY <4>1, NumbersAreNat DEF Layout
      <3>4. /\ ~(c[v].generation < windows[v].generation)
            /\ c[v].generation = windows[v].generation =>
                  ~(c[v].ui > 0) \/ ~(c[v].ui <= windows[v].ui)
        BY <2>1, <2>2 DEF Stale, Live
      <3>5. /\ c[v].generation > windows[v].generation \/ c[v].generation = windows[v].generation
            /\ c[v].generation = windows[v].generation => c[v].ui = 0 \/ c[v].ui >= windows[v].ui
            /\ windows[v].placement >= windows[v].placement
        BY <1>1, <3>3, <3>4
      <3> QED
        BY <3>2, <3>5 DEF InOrder
    <2>3. CASE v \notin DOMAIN c
      BY <1>2, <2>1, <2>3
    <2> QED
      BY <2>2, <2>3
  <1>10. ASSUME NEW id, NEW t \in Tabs, NEW w, ActivateTab(id, t, w)
         PROVE  InOrder(windows[v], windows'[v])
    <2>1. windows' = IF windows[w].selected = t THEN windows
                     ELSE [windows EXCEPT ![w] = Select(windows[w], t)]
      BY <1>10 DEF ActivateTab
    <2>2. LET r == Select(windows[v], t) IN
          /\ r.generation = windows[v].generation /\ r.ui = windows[v].ui
          /\ r.placement = windows[v].placement
      BY <1>1, WindowEdits
    <2>3. windows'[v] = windows[v] \/ windows'[v] = Select(windows[v], t)
      BY <2>1
    <2> QED
      BY <1>2, <2>2, <2>3, SameIsInOrder
  <1>11. ASSUME NEW o, NEW t \in Tabs, NEW a, NEW w, NEW g, NEW s \in Tabs \cup {NoTab},
                CloseTab(o, t, a, w, g, s)
         PROVE  InOrder(windows[v], windows'[v])
    <2> DEFINE rest == RemoveTab(windows[w], t)
               r == IF s = NoTab THEN rest ELSE Select(rest, s)
    <2>1. /\ w \in DOMAIN windows
          /\ s # NoTab => s \in Tabs
          /\ windows' = [windows EXCEPT ![w] = r]
      BY <1>11 DEF CloseTab, Live
    <2>2. windows[w] \in Window
      BY <2>1, WindowType DEF Inv
    <2>3. /\ rest \in Window /\ rest.generation = windows[w].generation
          /\ rest.ui = windows[w].ui /\ rest.placement = windows[w].placement
      BY <2>2, WindowEdits
    <2> HIDE DEF rest
    <2>4. /\ r.generation = windows[w].generation
          /\ r.ui = windows[w].ui /\ r.placement = windows[w].placement
      BY <2>1, <2>3, WindowEdits
    <2> HIDE DEF r
    <2>5. windows'[v] = windows[v] \/ (v = w /\ windows'[v] = r)
      BY <2>1
    <2> QED
      BY <1>2, <2>4, <2>5, SameIsInOrder
  <1>12. UNCHANGED windows => InOrder(windows[v], windows'[v])
    BY <1>2
  <1> QED
    BY <1>4, <1>5, <1>6, <1>7, <1>8, <1>9, <1>10, <1>11, <1>12, WindowSteps

\* A late commit overwrites nothing: the generation of a live window, and within
\* one its placement and UI sequences, never go back.
THEOREM WindowCommitsAreOrdered == Spec => CommitsAreOrdered
  <1>1. Inv /\ [Next]_vars =>
          [\A w \in DOMAIN windows \cap DOMAIN windows' :
              \/ windows'[w].generation > windows[w].generation
              \/ /\ windows'[w].generation = windows[w].generation
                 /\ windows'[w].placement >= windows[w].placement
                 /\ windows'[w].ui >= windows[w].ui \/ windows'[w].ui = 0]_vars
    BY WindowsInOrder DEF InOrder
  <1> QED
    BY <1>1, InvHolds, PTL DEF Spec, CommitsAreOrdered

=============================================================================
