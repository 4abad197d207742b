------------------------ MODULE PopupLifecycleProofs ------------------------
(***************************************************************************)
(* Safety of PopupLifecycle, for any popups, calls, owners and bounds: the *)
(* popups that a retirement, a move or dispose has fenced off are gone     *)
(* when it returns, no admission runs while a reload holds its lease, and  *)
(* what is on the screen has the zoom factor of its window.                *)
(***************************************************************************)
EXTENDS PopupLifecycle, FiniteSetTheorems, TLAPS

Present == {"admitting", "nativeReady", "ready", "closing"}

Popup ==
    [state : Present \cup {"absent", "allowed", "refused", "terminal"},
     native : {"None", "Alive", "Destroyed"}, shown : BOOLEAN,
     core : {"None", "Admitted", "NativeReady", "Ready", "Closing", "Ended", "Indeterminate"},
     queue : Seq({"Admit", "Close", "Closed", "PageReady", "Sync"}),
     step : {"Idle", "Admission", "NativeReady", "PageReady", "Close", "NativeClosed",
             "Cancel", "FailUnknown", "FailKnown"},
     closed : BOOLEAN, failed : BOOLEAN, ready : BOOLEAN,
     terminal : {"Pending", "Resolved", "Rejected"}, zoom : {0, 1}, astray : BOOLEAN]

\* What is told of a popup agrees: only a record has a chain; it is admitted by the
\* first task of the chain; its window is gone when it is closing or over.
Sound(r) ==
    /\ r \in Popup
    /\ r.state \notin Present => r.step = "Idle" /\ r.queue = <<>>
    /\ r.state \in Present => r.native # "None"
    /\ r.step # "Idle" => r.queue # <<>>
    /\ r.state = "admitting" =>
          /\ r.queue # <<>> /\ Head(r.queue) = "Admit"
          /\ r.step \in {"Admission", "NativeReady", "Close", "Cancel"}
          /\ r.step # "Admission" => r.core # "None"
    /\ r.step \in {"Admission", "NativeReady", "Cancel"} => r.state = "admitting"
    /\ r.step = "PageReady" => r.state = "nativeReady"
    /\ r.step = "Close" => r.state # "closing"
    /\ r.step = "NativeClosed" => r.state = "closing"
    /\ r.state \in {"nativeReady", "ready", "closing"} => r.core \notin {"None", "Admitted"}
    /\ r.native = "Alive" => r.state \in {"admitting", "nativeReady", "ready"}
    /\ r.terminal # "Pending" => r.state = "terminal"
    /\ r.shown => r.native = "Alive" /\ r.state \in {"nativeReady", "ready"}

Admitting(p) == popups[p].state = "admitting"

\* The popups that a retirement, a move or dispose is about.
Concerned(c) == IF KindOf[c] = "Dispose" THEN Popups ELSE Owned(OwnerOf[c])

\* A retirement or dispose fences for good; until it returns it awaits every record
\* that is left, and then none is.
Ends(c) ==
    /\ KindOf[c] = "Retire" /\ calls[c].stage # "Idle" => OwnerOf[c] \in retired
    /\ KindOf[c] = "Dispose" /\ calls[c].stage # "Idle" => state # "open"
    /\ KindOf[c] \in {"Retire", "Move", "Dispose"} /\ calls[c].stage = "Records" =>
          Concerned(c) \cap Records \subseteq calls[c].awaits
    /\ KindOf[c] \in {"Retire", "Dispose"} /\ calls[c].stage = "Done" =>
          Concerned(c) \cap Records = {}

\* A reload awaits the admissions that it found, and no other begins.
Reloads(c) ==
    c \in leases =>
       /\ KindOf[c] = "Reload"
       /\ calls[c].stage = "Flights" =>
             \A p \in Owned(OwnerOf[c]) : Admitting(p) => p \in calls[c].awaits
       /\ calls[c].stage \in {"Records", "Held"} =>
             \A p \in Owned(OwnerOf[c]) : ~Admitting(p)

\* So does a change of the zoom, except for popups that are astray; it then
\* awaits every popup on the screen.
Zooms(c) ==
    KindOf[c] = "Zoom" /\ calls[c].stage \in {"Flights", "Records"} =>
       /\ zoomLease = {c}
       /\ calls[c].stage = "Flights" =>
             \A p \in Popups : Admitting(p) /\ ~popups[p].astray => p \in calls[c].awaits
       /\ calls[c].stage = "Records" =>
             \A p \in Popups : ~popups[p].astray =>
                ~Admitting(p) /\ (popups[p].shown => p \in calls[c].awaits)

\* The moves of an owner that are under way are counted.
Movers(o) ==
    {c \in Calls : KindOf[c] = "Move" /\ OwnerOf[c] = o
                   /\ calls[c].stage \in {"Flights", "Records"}}

MovesCounted ==
    \A o \in Owners : IsFiniteSet(Movers(o)) /\ moving[o] = Cardinality(Movers(o))

\* A popup that is about to be shown, or is, has the factor of its window.
Zoomed(p) ==
    (popups[p].step = "NativeReady" \/ popups[p].shown) /\ ~popups[p].astray =>
       popups[p].zoom = factor

Inv ==
    /\ popups \in [Popups -> Popup]
    /\ DOMAIN calls = Calls /\ \A c \in Calls : DOMAIN calls[c] = {"stage", "awaits"}
    /\ moving \in [Owners -> Nat]
    /\ factor \in {0, 1}
    /\ leases \subseteq Calls
    /\ \A p \in Popups : Sound(popups[p]) /\ Zoomed(p)
    /\ \A c \in Calls : Ends(c) /\ Reloads(c) /\ Zooms(c)
    /\ MovesCounted

-----------------------------------------------------------------------------
(* One popup: what its handlers make of its record                         *)

\* What a handler may do to a record: it begins no admission and brings nothing back;
\* what it shows, or is about to, it leaves as it found it or gives the factor f.
Evolves(r, x, f) ==
    /\ Sound(x)
    /\ x.state \in Present => r.state \in Present
    /\ x.state = "admitting" => r.state = "admitting" /\ x.astray = r.astray
    /\ x.step = "NativeReady" =>
          /\ x.astray = r.astray
          /\ x.zoom = f \/ (r.step = "NativeReady" /\ x.zoom = r.zoom)
    /\ x.shown =>
          x.astray = r.astray /\ x.zoom = r.zoom /\ (r.shown \/ r.step = "NativeReady")

Tasks == {"Admit", "Close", "Closed", "PageReady", "Sync"}

LEMMA TaskAppended ==
    ASSUME NEW q \in Seq(Tasks), NEW task \in Tasks
    PROVE  /\ Append(q, task) \in Seq(Tasks) /\ Append(q, task) # <<>>
           /\ q # <<>> => Head(Append(q, task)) = Head(q)
<1>1. Append(q, task) \in Seq(Tasks) /\ Len(Append(q, task)) = Len(q) + 1
  OBVIOUS
<1>2. q # <<>> => Len(q) > 0 /\ Append(q, task)[1] = q[1]
  OBVIOUS
<1> QED
  BY <1>1, <1>2

\* A task is queued; the fields named here may change with it.
LEMMA AppendEvolves ==
    ASSUME NEW r, Sound(r), r.state \in Present, NEW task \in Tasks,
           NEW f
    PROVE  /\ Evolves(r, [r EXCEPT !.queue = Append(@, task)], f)
           /\ Evolves(r, [r EXCEPT !.failed = TRUE, !.queue = Append(@, task)], f)
           /\ Evolves(r, [r EXCEPT !.ready = TRUE, !.queue = Append(@, task)], f)
<1>1. r.queue \in Seq(Tasks)
  BY DEF Sound, Popup, Tasks
<1>2. /\ Append(r.queue, task) \in Seq(Tasks) /\ Append(r.queue, task) # <<>>
      /\ r.queue # <<>> => Head(Append(r.queue, task)) = Head(r.queue)
  BY <1>1, TaskAppended
<1> DEFINE q == Append(r.queue, task)
<1> HIDE DEF q
<1>3. q \in Seq(Tasks) /\ q # <<>> /\ (r.queue # <<>> => Head(q) = Head(r.queue))
  BY <1>2 DEF q
<1>4. ASSUME NEW x \in Popup,
             x.queue = q /\ x.step = r.step /\ x.shown = r.shown /\ x.astray = r.astray,
             x.state = r.state /\ x.core = r.core /\ x.native = r.native,
             x.terminal = r.terminal /\ x.zoom = r.zoom
      PROVE  Evolves(r, x, f)
  BY <1>3, <1>4 DEF Evolves, Sound
<1>5. Evolves(r, [r EXCEPT !.queue = q], f)
  BY <1>3, <1>4 DEF Sound, Popup, Tasks
<1>6. Evolves(r, [r EXCEPT !.failed = TRUE, !.queue = q], f)
  BY <1>3, <1>4 DEF Sound, Popup, Tasks
<1>7. Evolves(r, [r EXCEPT !.ready = TRUE, !.queue = q], f)
  BY <1>3, <1>4 DEF Sound, Popup, Tasks
<1> QED
  BY <1>5, <1>6, <1>7 DEF q

LEMMA DestroyedEvolves ==
    ASSUME NEW r, Sound(r), r.state \in Present, NEW f
    PROVE  /\ Evolves(r, Destroyed(r), f)
           /\ Destroyed(r).native = "Destroyed" /\ ~Destroyed(r).shown
           /\ Destroyed(r).core = r.core /\ Destroyed(r).state = r.state
<1>1. CASE r.native # "Alive"
  BY <1>1 DEF Evolves, Sound, Destroyed, Popup, Present
<1>2. CASE r.native = "Alive"
  <2>1. r.queue \in Seq(Tasks)
    BY DEF Sound, Popup, Tasks
  <2>2. /\ Append(r.queue, "Closed") \in Seq(Tasks) /\ Append(r.queue, "Closed") # <<>>
        /\ r.queue # <<>> => Head(Append(r.queue, "Closed")) = Head(r.queue)
    BY <2>1, TaskAppended DEF Tasks
  <2> DEFINE q == Append(r.queue, "Closed")
  <2>3. Destroyed(r) = [r EXCEPT !.native = "Destroyed", !.shown = FALSE, !.closed = TRUE,
                                 !.queue = q]
    BY <1>2 DEF Destroyed
  <2> HIDE DEF q
  <2>4. q \in Seq(Tasks) /\ q # <<>> /\ (r.queue # <<>> => Head(q) = Head(r.queue))
    BY <2>2 DEF q
  <2> QED
    BY <2>3, <2>4, ZenonT(60) DEF Evolves, Sound, Popup, Present, Tasks
<1> QED
  BY <1>1, <1>2

\* A record is dropped when its window is gone.
LEMMA SettledEvolves ==
    ASSUME NEW r, NEW x, NEW f, NEW outcome \in {"Pending", "Resolved", "Rejected"},
           Sound(r), r.state \in Present,
           x.native \in {"None", "Destroyed"}, x.shown = FALSE,
           x.core \in {"None", "Admitted", "NativeReady", "Ready", "Closing", "Ended",
                       "Indeterminate"}
    PROVE  Evolves(r, Settled(x, outcome), f)
<1> DEFINE y == Settled(x, outcome)
<1>1. /\ y.state = "terminal" /\ y.step = "Idle" /\ y.queue = <<>> /\ y.shown = FALSE
      /\ y.native \in {"None", "Destroyed"}
  BY DEF Settled, NoPopup
<1>2. y \in Popup
  <2> DEFINE z == [NoPopup EXCEPT !.state = "terminal", !.native = x.native, !.shown = FALSE]
  <2>a. NoPopup \in Popup
    BY DEF NoPopup, Popup, Present
  <2>1. z \in Popup
    BY <2>a DEF Popup, Present
  <2>2. y = [z EXCEPT !.core = x.core, !.terminal = outcome]
    BY DEF Settled
  <2> HIDE DEF y, z
  <2> QED
    BY <2>1, <2>2 DEF Popup
<1> HIDE DEF y
<1>3. Evolves(r, y, f)
  BY <1>1, <1>2 DEF Evolves, Sound, Present
<1> QED
  BY <1>3 DEF y

\* It is dropped with its window, whatever the Core is told.
LEMMA AbandonedEvolves ==
    ASSUME NEW r, NEW f, NEW core, NEW outcome \in {"Resolved", "Rejected"},
           core \in {"None", "Admitted", "NativeReady", "Ready", "Closing", "Ended",
                     "Indeterminate"},
           Sound(r), r.state \in Present
    PROVE  Evolves(r, Settled(Destroyed([r EXCEPT !.core = core]), outcome), f)
<1> DEFINE x == Destroyed([r EXCEPT !.core = core])
<1>1. x.native \in {"None", "Destroyed"} /\ x.shown = FALSE /\ x.core = core
  BY DEF Destroyed, Sound, Popup
<1> HIDE DEF x
<1>2. Evolves(r, Settled(x, outcome), f)
  BY <1>1, SettledEvolves
<1> QED
  BY <1>2 DEF x

LEMMA TaskDone ==
    ASSUME NEW q \in Seq(Tasks), q # <<>>
    PROVE  Tail(q) \in Seq(Tasks)
  OBVIOUS

LEMMA ReturnedEvolves ==
    ASSUME NEW r, Sound(r), r.queue # <<>>, r.state # "admitting", NEW f
    PROVE  Evolves(r, Returned(r), f)
<1>1. Tail(r.queue) \in Seq(Tasks)
  BY TaskDone DEF Sound, Popup, Tasks
<1> DEFINE q == Tail(r.queue)
<1>2. Returned(r) = [r EXCEPT !.step = "Idle", !.queue = q]
  BY DEF Returned
<1>3. q \in Seq(Tasks)
  BY <1>1
<1> HIDE DEF q
<1> QED
  BY <1>2, <1>3, ZenonT(30) DEF Evolves, Sound, Popup, Present, Tasks

\* A record that goes on to its next commit.
LEMMA StepEvolves ==
    ASSUME NEW r, Sound(r), r.queue # <<>>, r.state \in Present, NEW f, NEW step,
           \/ step = "Close" /\ r.state # "closing" /\ r.core # "None"
           \/ step = "NativeClosed" /\ r.state = "closing"
           \/ step = "PageReady" /\ r.state = "nativeReady"
           \/ step = "Cancel" /\ r.state = "admitting" /\ r.core # "None"
           \/ step \in {"FailKnown", "FailUnknown"} /\ r.state # "admitting"
    PROVE  Evolves(r, [r EXCEPT !.step = step], f)
<1> DEFINE x == [r EXCEPT !.step = step]
<1>1. x \in Popup /\ x.step = step
  BY DEF Sound, Popup
<1>2. /\ x.state = r.state /\ x.core = r.core /\ x.native = r.native /\ x.queue = r.queue
      /\ x.shown = r.shown /\ x.astray = r.astray /\ x.zoom = r.zoom /\ x.terminal = r.terminal
  BY DEF Sound, Popup
<1> HIDE DEF x
<1>3. Evolves(r, x, f)
  BY <1>1, <1>2 DEF Evolves, Sound, Present
<1> QED
  BY <1>3 DEF x

\* A record with a window can be asked to close, or be told that its window closed.
LEMMA CloseRequestedEvolves ==
    ASSUME NEW r, Sound(r), r.queue # <<>>, r.state \in Present \ {"admitting"}, NEW f
    PROVE  Evolves(r, CloseRequested(r), f) /\ Evolves(r, ClosedObserved(r), f)
<1>1. r.core # "None"
  BY DEF Sound, Present
<1>2. CASE r.state = "closing"
  BY <1>2, StepEvolves, ReturnedEvolves DEF CloseRequested, ClosedObserved
<1>3. CASE r.state # "closing"
  BY <1>1, <1>3, StepEvolves DEF CloseRequested, ClosedObserved
<1> QED
  BY <1>2, <1>3

LEMMA PageReadyEvolves ==
    ASSUME NEW r, Sound(r), r.queue # <<>>, r.state \in Present \ {"admitting"}, NEW f
    PROVE  Evolves(r, PageReady(r), f)
  BY StepEvolves, ReturnedEvolves DEF PageReady

\* A task of the chain starts.
LEMMA TaskStartsEvolves ==
    ASSUME NEW p \in Popups, Sound(popups[p]), DOMAIN popups = Popups, TaskStarts(p), NEW f
    PROVE  /\ popups' = [popups EXCEPT ![p] = popups'[p]] /\ popups[p].state \in Present
           /\ Evolves(popups[p], popups'[p], f)
<1> DEFINE r == popups[p]
<1>1. r.queue # <<>> /\ r.state \in Present \ {"admitting"}
  BY DEF TaskStarts, Sound
<1>2. PICK x : /\ popups' = [popups EXCEPT ![p] = x]
               /\ x \in {CloseRequested(r), ClosedObserved(r), PageReady(r), Returned(r)}
  BY DEF TaskStarts
<1>3. Evolves(r, x, f)
  BY <1>1, <1>2, CloseRequestedEvolves, PageReadyEvolves, ReturnedEvolves
<1> QED
  BY <1>1, <1>2, <1>3

\* The Core has answered the request for an admission.
LEMMA AdmissionEvolves ==
    ASSUME NEW r, Sound(r), r.step = "Admission", NEW f \in {0, 1}
    PROVE  LET a == [r EXCEPT !.core = "Admitted"]
           IN  /\ Evolves(r, CloseRequested(a), f)
               /\ Evolves(r, [a EXCEPT !.zoom = f, !.step = "NativeReady"], f)
<1> DEFINE a == [r EXCEPT !.core = "Admitted"]
           x == [a EXCEPT !.step = "Close"]
           y == [a EXCEPT !.zoom = f, !.step = "NativeReady"]
<1>1. /\ x \in Popup /\ x.step = "Close" /\ x.core = "Admitted" /\ x.zoom = r.zoom
      /\ y \in Popup /\ y.step = "NativeReady" /\ y.core = "Admitted" /\ y.zoom = f
  BY DEF Sound, Popup
<1>2. /\ x.state = r.state /\ x.native = r.native /\ x.queue = r.queue
      /\ x.shown = r.shown /\ x.astray = r.astray /\ x.terminal = r.terminal
  BY DEF Sound, Popup
<1>3. /\ y.state = r.state /\ y.native = r.native /\ y.queue = r.queue
      /\ y.shown = r.shown /\ y.astray = r.astray /\ y.terminal = r.terminal
  BY DEF Sound, Popup
<1>4. CloseRequested(a) = x
  BY DEF CloseRequested, Sound, Popup
<1> HIDE DEF a, x, y
<1>5. Evolves(r, x, f) /\ Evolves(r, y, f)
  BY <1>1, <1>2, <1>3 DEF Evolves, Sound, Present
<1> QED
  BY <1>4, <1>5 DEF a, y

\* The Core has taken the native window: it is shown, or closed at once; or it refuses to be shown.
LEMMA NativeReadyEvolves ==
    ASSUME NEW r, Sound(r), r.step = "NativeReady", NEW f
    PROVE  LET n == [r EXCEPT !.core = "NativeReady", !.state = "nativeReady"]
               s == [n EXCEPT !.shown = TRUE]
           IN  /\ Evolves(r, CloseRequested(n), f)
               /\ ~Interrupted(n) => /\ Evolves(r, PageReady(s), f)
                                     /\ Evolves(r, Returned(s), f)
                                     /\ Evolves(r, Failed(n), f)
<1> DEFINE n == [r EXCEPT !.core = "NativeReady", !.state = "nativeReady"]
           s == [n EXCEPT !.shown = TRUE]
<1>1. r.state = "admitting" /\ r.queue # <<>> /\ r.native # "None" /\ r.queue \in Seq(Tasks)
  BY DEF Sound, Popup, Present, Tasks
<1>2. n \in Popup /\ n.state = "nativeReady" /\ n.core = "NativeReady"
  BY DEF Sound, Popup, Present
<1>3. /\ n.native = r.native /\ n.queue = r.queue /\ n.step = r.step
      /\ n.shown = r.shown /\ n.astray = r.astray /\ n.terminal = r.terminal /\ n.zoom = r.zoom
  BY DEF Sound, Popup
<1>4. s \in Popup /\ s.shown /\ s.state = "nativeReady" /\ s.core = "NativeReady"
  BY <1>2 DEF Popup
<1>5. /\ s.native = r.native /\ s.queue = r.queue /\ s.step = r.step
      /\ s.astray = r.astray /\ s.terminal = r.terminal /\ s.zoom = r.zoom
  BY <1>2, <1>3 DEF Popup
<1> HIDE DEF n, s
<1>6. Evolves(r, CloseRequested(n), f)
  <2> DEFINE x == [n EXCEPT !.step = "Close"]
  <2>1. CloseRequested(n) = x
    BY <1>2 DEF CloseRequested
  <2>2. /\ x \in Popup /\ x.step = "Close" /\ x.state = n.state /\ x.core = n.core
        /\ x.native = n.native /\ x.queue = n.queue
        /\ x.shown = n.shown /\ x.astray = n.astray /\ x.terminal = n.terminal /\ x.zoom = n.zoom
    BY <1>2 DEF Popup
  <2> HIDE DEF x
  <2>3. Evolves(r, x, f)
    BY <1>1, <1>2, <1>3, <2>2 DEF Evolves, Sound, Present
  <2> QED
    BY <2>1, <2>3
<1>7. ASSUME ~Interrupted(n)
      PROVE  Evolves(r, PageReady(s), f) /\ Evolves(r, Returned(s), f) /\ Evolves(r, Failed(n), f)
  <2>1. r.native = "Alive"
    BY <1>1, <1>3, <1>7 DEF Interrupted, Sound, Popup
  <2> DEFINE x == [s EXCEPT !.step = "PageReady"]
             q == Tail(s.queue)
             y == [s EXCEPT !.step = "Idle", !.queue = q]
             z == [n EXCEPT !.step = "FailUnknown"]
  <2>2. PageReady(s) = x /\ Returned(s) = y /\ Failed(n) = z
    BY <1>2, <1>3, <1>4, <2>1 DEF PageReady, Returned, Failed
  <2>3. q \in Seq(Tasks)
    BY <1>1, <1>5, TaskDone
  <2> HIDE DEF q
  <2>4. /\ x \in Popup /\ x.step = "PageReady" /\ x.state = s.state /\ x.core = s.core
        /\ x.native = s.native /\ x.queue = s.queue
        /\ x.shown = s.shown /\ x.astray = s.astray /\ x.terminal = s.terminal /\ x.zoom = s.zoom
    BY <1>4 DEF Popup
  <2>5. /\ y \in Popup /\ y.step = "Idle" /\ y.state = s.state /\ y.core = s.core
        /\ y.native = s.native
        /\ y.shown = s.shown /\ y.astray = s.astray /\ y.terminal = s.terminal /\ y.zoom = s.zoom
    BY <1>4, <2>3 DEF Popup, Tasks
  <2>8. /\ z \in Popup /\ z.step = "FailUnknown" /\ z.state = n.state /\ z.core = n.core
        /\ z.native = n.native /\ z.queue = n.queue
        /\ z.shown = n.shown /\ z.astray = n.astray /\ z.terminal = n.terminal /\ z.zoom = n.zoom
    BY <1>2 DEF Popup
  <2> HIDE DEF x, y, z
  <2>6. Evolves(r, x, f)
    BY <1>1, <1>4, <1>5, <2>1, <2>4 DEF Evolves, Sound, Present
  <2>7. Evolves(r, y, f)
    BY <1>1, <1>4, <1>5, <2>1, <2>5 DEF Evolves, Sound, Present
  <2>9. Evolves(r, z, f)
    BY <1>1, <1>2, <1>3, <2>1, <2>8 DEF Evolves, Sound, Present
  <2> QED
    BY <2>2, <2>6, <2>7, <2>9
<1> QED
  BY <1>6, <1>7 DEF n, s

\* The Core has taken the page, or the request to close a window that it knows.
LEMMA CommittedEvolves ==
    ASSUME NEW r, Sound(r), NEW f
    PROVE  /\ r.step = "PageReady" =>
                 Evolves(r, Returned([r EXCEPT !.core = "Ready", !.state = "ready"]), f)
           /\ r.step = "Close" /\ r.core # "Admitted" =>
                 Evolves(r, [Destroyed([r EXCEPT !.core = "Closing", !.state = "closing"])
                                EXCEPT !.step = "NativeClosed"], f)
<1>1. ASSUME r.step = "PageReady"
      PROVE  Evolves(r, Returned([r EXCEPT !.core = "Ready", !.state = "ready"]), f)
  <2> DEFINE a == [r EXCEPT !.core = "Ready", !.state = "ready"]
  <2>1. r.state = "nativeReady" /\ r.queue # <<>>
    BY <1>1 DEF Sound
  <2>2. /\ a \in Popup /\ a.state = "ready" /\ a.core = "Ready"
        /\ a.native = r.native /\ a.queue = r.queue /\ a.step = r.step
        /\ a.shown = r.shown /\ a.astray = r.astray /\ a.terminal = r.terminal /\ a.zoom = r.zoom
    BY DEF Sound, Popup, Present
  <2> DEFINE q == Tail(a.queue)
             y == [a EXCEPT !.step = "Idle", !.queue = q]
  <2>3. Returned(a) = y
    BY DEF Returned
  <2> HIDE DEF a
  <2>4. q \in Seq(Tasks)
    BY <2>1, <2>2, TaskDone DEF Popup, Tasks
  <2> HIDE DEF q
  <2>5. /\ y \in Popup /\ y.step = "Idle" /\ y.state = a.state /\ y.core = a.core
        /\ y.native = a.native
        /\ y.shown = a.shown /\ y.astray = a.astray /\ y.terminal = a.terminal /\ y.zoom = a.zoom
    BY <2>2, <2>4 DEF Popup, Tasks
  <2> HIDE DEF y
  <2>6. Evolves(r, y, f)
    BY <2>1, <2>2, <2>5 DEF Evolves, Sound, Present
  <2> QED
    BY <2>3, <2>6 DEF a
<1>2. ASSUME r.step = "Close", r.core # "Admitted"
      PROVE  Evolves(r, [Destroyed([r EXCEPT !.core = "Closing", !.state = "closing"])
                            EXCEPT !.step = "NativeClosed"], f)
  <2> DEFINE a == [r EXCEPT !.core = "Closing", !.state = "closing"]
             d == Destroyed(a)
             x == [d EXCEPT !.step = "NativeClosed"]
  <2>1. r.state \in {"nativeReady", "ready", "admitting"} /\ r.queue # <<>>
        /\ r.native # "None"
    BY <1>2 DEF Sound, Popup, Present
  <2>2. /\ a \in Popup /\ a.state = "closing" /\ a.core = "Closing"
        /\ a.native = r.native /\ a.queue = r.queue /\ a.step = r.step
        /\ a.shown = r.shown /\ a.astray = r.astray /\ a.terminal = r.terminal /\ a.zoom = r.zoom
    BY DEF Sound, Popup, Present
  <2> HIDE DEF a
  <2>3. /\ d \in Popup /\ d.native = "Destroyed" /\ d.shown = FALSE /\ d.queue # <<>>
        /\ d.state = a.state /\ d.core = a.core /\ d.terminal = a.terminal
    <3>1. CASE a.native # "Alive"
      <4>1. a.native = "Destroyed" /\ a.shown = FALSE
        BY <2>1, <2>2, <3>1 DEF Sound, Popup
      <4> QED
        BY <2>1, <2>2, <3>1, <4>1 DEF Destroyed
    <3>2. CASE a.native = "Alive"
      <4> DEFINE q == Append(a.queue, "Closed")
      <4>1. q \in Seq(Tasks) /\ q # <<>>
        BY <2>2, TaskAppended DEF Popup, Tasks
      <4>2. d = [a EXCEPT !.native = "Destroyed", !.shown = FALSE, !.closed = TRUE,
                          !.queue = q]
        BY <3>2 DEF Destroyed
      <4> HIDE DEF q, d
      <4> QED
        BY <2>2, <4>1, <4>2 DEF Popup, Tasks
    <3> QED
      BY <3>1, <3>2
  <2> HIDE DEF d
  <2>4. /\ x \in Popup /\ x.step = "NativeClosed" /\ x.state = d.state /\ x.core = d.core
        /\ x.native = d.native /\ x.queue = d.queue
        /\ x.shown = d.shown /\ x.terminal = d.terminal
    BY <2>3 DEF Popup
  <2> HIDE DEF x
  <2>5. Evolves(r, x, f)
    BY <2>1, <2>2, <2>3, <2>4 DEF Evolves, Sound, Present
  <2> QED
    BY <2>5 DEF a, d, x
<1> QED
  BY <1>1, <1>2

\* A commit or a native call fails.
LEMMA FailedEvolves ==
    ASSUME NEW r, Sound(r), r.step # "Idle", NEW f
    PROVE  Evolves(r, Abandoned(r), f) /\ Evolves(r, Failed(r), f)
<1>1. r.queue # <<>> /\ r.state \in Present
  BY DEF Sound
<1>2. Evolves(r, Abandoned(r), f)
  <2>1. /\ Destroyed(r).native = "Destroyed" /\ Destroyed(r).shown = FALSE
        /\ Destroyed(r).core = r.core
    BY <1>1, DestroyedEvolves
  <2> QED
    BY <1>1, <2>1, SettledEvolves DEF Abandoned, Sound, Popup
<1>3. CASE r.core = "None"
  BY <1>2, <1>3 DEF Failed
<1>4. CASE r.core # "None" /\ r.state = "admitting"
  <2>1. Failed(r) = [r EXCEPT !.step = "Cancel"]
    BY <1>4 DEF Failed
  <2>2. Evolves(r, [r EXCEPT !.step = "Cancel"], f)
    BY <1>1, <1>4, StepEvolves
  <2> QED
    BY <1>2, <2>1, <2>2
<1>5. CASE r.core # "None" /\ r.state # "admitting"
  <2>1. PICK step \in {"FailKnown", "FailUnknown"} : Failed(r) = [r EXCEPT !.step = step]
    BY <1>5 DEF Failed
  <2>2. Evolves(r, [r EXCEPT !.step = step], f)
    BY <1>1, <1>5, StepEvolves
  <2> QED
    BY <1>2, <2>1, <2>2
<1> QED
  BY <1>2, <1>3, <1>4, <1>5

\* An answer of the Core, and a failure.
LEMMA AnswersEvolve ==
    ASSUME NEW p \in Popups, Sound(popups[p]), DOMAIN popups = Popups, factor \in {0, 1},
           CoreAnswers(p) \/ ShowFails(p) \/ StepFails(p)
    PROVE  /\ popups' = [popups EXCEPT ![p] = popups'[p]] /\ popups[p].state \in Present
           /\ Evolves(popups[p], popups'[p], factor)
<1> DEFINE r == popups[p]
<1>1. r.step # "Idle" /\ r.state \in Present
  BY DEF CoreAnswers, AdmissionAnswered, NativeReadyAnswered, PageReadyAnswered,
         CloseAnswered, NativeClosedAnswered, CancelAnswered, FailureAnswered, ShowFails,
         StepFails, Sound
<1> SUFFICES \E x : popups' = [popups EXCEPT ![p] = x] /\ Evolves(r, x, factor)
  BY <1>1
<1>2. CASE AdmissionAnswered(p)
  <2> DEFINE a == [r EXCEPT !.core = "Admitted"]
             y == [a EXCEPT !.zoom = factor, !.step = "NativeReady"]
  <2>1. r.step = "Admission"
    BY <1>2 DEF AdmissionAnswered
  <2>2. Evolves(r, CloseRequested(a), factor) /\ Evolves(r, y, factor)
    BY <2>1, AdmissionEvolves, Zenon
  <2>3. PICK x \in {CloseRequested(a), y} : popups' = [popups EXCEPT ![p] = x]
    BY <1>2 DEF AdmissionAnswered, Answered
  <2> HIDE DEF a, y
  <2> QED
    BY <2>2, <2>3
<1>3. CASE NativeReadyAnswered(p)
  <2> DEFINE n == [r EXCEPT !.core = "NativeReady", !.state = "nativeReady"]
             s == [n EXCEPT !.shown = TRUE]
  <2>1. r.step = "NativeReady"
    BY <1>3 DEF NativeReadyAnswered
  <2>2. /\ Evolves(r, CloseRequested(n), factor)
        /\ ~Interrupted(n) =>
              Evolves(r, PageReady(s), factor) /\ Evolves(r, Returned(s), factor)
    BY <2>1, NativeReadyEvolves
  <2>3. PICK x : /\ popups' = [popups EXCEPT ![p] = x]
                 /\ \/ x = CloseRequested(n)
                    \/ ~Interrupted(n) /\ x \in {PageReady(s), Returned(s)}
    BY <1>3 DEF NativeReadyAnswered, Answered
  <2> HIDE DEF n, s
  <2> QED
    BY <2>2, <2>3
<1>4. CASE PageReadyAnswered(p)
  BY <1>4, CommittedEvolves, Zenon DEF PageReadyAnswered, Answered
<1>5. CASE CloseAnswered(p)
  BY <1>1, <1>5, CommittedEvolves, AbandonedEvolves, Zenon DEF CloseAnswered, Answered
<1>6. CASE NativeClosedAnswered(p)
  <2> DEFINE x == [r EXCEPT !.core = "Ended"]
  <2>1. /\ x.native \in {"None", "Destroyed"} /\ x.shown = FALSE /\ x.core = "Ended"
    BY <1>6 DEF NativeClosedAnswered, Sound, Popup
  <2> HIDE DEF x
  <2>2. Evolves(r, Settled(x, "Resolved"), factor)
    BY <1>1, <2>1, SettledEvolves
  <2> QED
    BY <1>6, <2>2 DEF NativeClosedAnswered, Answered, x
<1>7. CASE CancelAnswered(p)
  BY <1>1, <1>7, AbandonedEvolves DEF CancelAnswered, Answered
<1>8. CASE FailureAnswered(p)
  BY <1>1, <1>8, AbandonedEvolves DEF FailureAnswered, Answered, Abandoned
<1>9. CASE StepFails(p)
  BY <1>9, FailedEvolves, Zenon DEF StepFails
<1>10. CASE ShowFails(p)
  <2> DEFINE n == [r EXCEPT !.core = "NativeReady", !.state = "nativeReady"]
  <2>1. /\ r.step = "NativeReady" /\ ~Interrupted(n)
        /\ popups' = [popups EXCEPT ![p] = Failed(n)]
    BY <1>10 DEF ShowFails
  <2>2. Evolves(r, Failed(n), factor)
    BY <2>1, NativeReadyEvolves, Zenon
  <2> HIDE DEF n
  <2> QED
    BY <2>1, <2>2
<1> QED
  BY <1>2, <1>3, <1>4, <1>5, <1>6, <1>7, <1>8, <1>9, <1>10 DEF CoreAnswers

\* What a window and its page do.
LEMMA ListenersEvolve ==
    ASSUME NEW p \in Popups, Sound(popups[p]), DOMAIN popups = Popups, NEW f,
           WindowCloses(p) \/ WindowClosed(p) \/ LoadFails(p) \/ LoadFinishes(p)
    PROVE  /\ popups' = [popups EXCEPT ![p] = popups'[p]] /\ popups[p].state \in Present
           /\ Evolves(popups[p], popups'[p], f)
<1>1. popups[p].state \in Present
  BY DEF WindowCloses, WindowClosed, LoadFails, LoadFinishes, Listening, Records, Present
<1>2. \E x : popups' = [popups EXCEPT ![p] = x] /\ Evolves(popups[p], x, f)
  <2>1. CASE WindowCloses(p)
    BY <1>1, <2>1, AppendEvolves, Zenon DEF WindowCloses, Tasks
  <2>2. CASE WindowClosed(p)
    BY <1>1, <2>2, DestroyedEvolves DEF WindowClosed
  <2>3. CASE LoadFails(p)
    <3> DEFINE x == [popups[p] EXCEPT !.failed = TRUE, !.queue = Append(@, "Close")]
    <3>1. Evolves(popups[p], x, f)
      BY <1>1, AppendEvolves, Zenon DEF Tasks
    <3>2. popups' = [popups EXCEPT ![p] = x]
      BY <2>3, Zenon DEF LoadFails
    <3> HIDE DEF x
    <3> QED
      BY <3>1, <3>2
  <2>4. CASE LoadFinishes(p)
    <3> DEFINE x == [popups[p] EXCEPT !.ready = TRUE, !.queue = Append(@, "PageReady")]
    <3>1. Evolves(popups[p], x, f)
      BY <1>1, AppendEvolves, Zenon DEF Tasks
    <3>2. popups' = [popups EXCEPT ![p] = x]
      BY <2>4 DEF LoadFinishes
    <3> HIDE DEF x
    <3> QED
      BY <3>1, <3>2
  <2> QED
    BY <2>1, <2>2, <2>3, <2>4
<1> QED
  BY <1>1, <1>2

-----------------------------------------------------------------------------
(* The popups together                                                     *)

LEMMA RecordsArePresent == Records = {p \in Popups : popups[p].state \in Present}
  BY DEF Records, Present

LEMMA InitInv == Init => Inv
<1> SUFFICES ASSUME Init
             PROVE  Inv
  OBVIOUS
<1>1. /\ NoPopup \in Popup /\ NoPopup.state = "absent" /\ NoPopup.step = "Idle"
      /\ NoPopup.queue = <<>> /\ NoPopup.shown = FALSE /\ NoPopup.terminal = "Pending"
      /\ NoPopup.native = "None"
  BY DEF NoPopup, Popup, Present
<1>2. \A p \in Popups : popups[p] = NoPopup
  BY DEF Init
<1>3. Sound(NoPopup)
  BY <1>1 DEF Sound, Present
<1>4. \A p \in Popups : Sound(popups[p]) /\ Zoomed(p)
  BY <1>1, <1>2, <1>3 DEF Zoomed
<1>5. popups \in [Popups -> Popup]
  BY <1>1 DEF Init
<1>6. \A c \in Calls : calls[c].stage = "Idle" /\ DOMAIN calls[c] = {"stage", "awaits"}
  BY DEF Init
<1>7. \A c \in Calls : Ends(c) /\ Reloads(c) /\ Zooms(c)
  BY <1>6 DEF Init, Ends, Reloads, Zooms
<1>8. MovesCounted
  <2>1. \A o \in Owners : Movers(o) = {} /\ moving[o] = 0
    BY <1>6 DEF Init, Movers
  <2> QED
    BY <2>1, FS_EmptySet DEF MovesCounted
<1> QED
  BY <1>4, <1>5, <1>6, <1>7, <1>8 DEF Init, Inv

\* The popup x is the only one that has changed.
OnlyOne(x) == popups' = [popups EXCEPT ![x] = popups'[x]]

\* What a call has yet to see depends on the popups only in this way.
FewerRecords ==
    /\ popups' \in [Popups -> Popup]
    /\ \A p \in Popups :
          /\ popups'[p].state \in Present => popups[p].state \in Present
          /\ Admitting(p)' => Admitting(p) /\ (popups[p].astray => popups'[p].astray)
          /\ popups'[p].shown =>
                /\ popups[p].astray => popups'[p].astray
                /\ popups[p].shown \/ Admitting(p)

LEMMA EvolvedRecords ==
    ASSUME Inv, NEW p \in Popups, OnlyOne(p), Evolves(popups[p], popups'[p], factor)
    PROVE  FewerRecords /\ \A q \in Popups : Sound(popups'[q])
<1>1. \A q \in Popups : q # p => popups'[q] = popups[q]
  BY DEF OnlyOne, Inv
<1>2. popups' \in [Popups -> Popup]
  BY DEF OnlyOne, Inv, Evolves, Sound
<1>3. /\ popups'[p].state \in Present => popups[p].state \in Present
      /\ Admitting(p)' => Admitting(p) /\ (popups[p].astray => popups'[p].astray)
      /\ popups'[p].shown =>
            /\ popups[p].astray => popups'[p].astray
            /\ popups[p].shown \/ Admitting(p)
  BY DEF Evolves, Admitting, Inv, Sound
<1>4. \A q \in Popups : q # p => (Admitting(q)' <=> Admitting(q))
  BY <1>1 DEF Admitting
<1> QED
  BY <1>1, <1>2, <1>3, <1>4 DEF FewerRecords, Evolves, Inv

LEMMA EvolvedZoom ==
    ASSUME Inv, NEW p \in Popups, OnlyOne(p), Evolves(popups[p], popups'[p], factor),
           factor' = factor
    PROVE  \A q \in Popups : Zoomed(q)'
<1>1. \A q \in Popups : q # p => popups'[q] = popups[q]
  BY DEF OnlyOne, Inv
<1>2. \A q \in Popups : q # p => Zoomed(q)'
  BY <1>1 DEF Inv, Zoomed
<1>3. Zoomed(p)'
  BY DEF Evolves, Inv, Zoomed
<1> QED
  BY <1>2, <1>3

\* While the popups change so, the calls stand where they stood.
LEMMA FewerRecordsKeepCalls ==
    ASSUME Inv, FewerRecords, UNCHANGED <<state, calls, fences>>
    PROVE  /\ \A c \in Calls : Ends(c)' /\ Reloads(c)' /\ Zooms(c)'
           /\ MovesCounted'
<1>1. Records' \subseteq Records
  BY RecordsArePresent DEF FewerRecords, Records, Present
<1>2. UNCHANGED <<retired, moving, leases, zoomLease>>
  BY DEF fences
<1>3. \A c \in Calls : Concerned(c)' = Concerned(c)
  BY DEF Concerned, Owned
<1>4. ASSUME NEW c \in Calls
      PROVE  Ends(c)'
  BY <1>1, <1>2, <1>3 DEF Inv, Ends
<1>5. ASSUME NEW c \in Calls
      PROVE  Reloads(c)'
  <2>1. Owned(OwnerOf[c])' = Owned(OwnerOf[c]) /\ Owned(OwnerOf[c]) \subseteq Popups
    BY DEF Owned
  <2> QED
    BY <1>2, <2>1 DEF Inv, Reloads, FewerRecords
<1>6. ASSUME NEW c \in Calls
      PROVE  Zooms(c)'
  BY <1>2 DEF Inv, Zooms, FewerRecords
<1>7. MovesCounted'
  BY <1>2 DEF Inv, MovesCounted, Movers
<1> QED
  BY <1>4, <1>5, <1>6, <1>7

LEMMA EvolvesInv ==
    ASSUME Inv, NEW p \in Popups, OnlyOne(p), Evolves(popups[p], popups'[p], factor),
           UNCHANGED <<state, calls, fences, factor>>
    PROVE  Inv'
<1>1. FewerRecords /\ \A q \in Popups : Sound(popups'[q])
  BY EvolvedRecords
<1>2. \A q \in Popups : Zoomed(q)'
  BY EvolvedZoom
<1>3. (\A c \in Calls : Ends(c)' /\ Reloads(c)' /\ Zooms(c)') /\ MovesCounted'
  BY <1>1, FewerRecordsKeepCalls
<1> QED
  BY <1>1, <1>2, <1>3 DEF Inv, FewerRecords, fences

\* A window that is allowed, or refused, is not yet a record.
LEMMA AllowedInv ==
    ASSUME Inv, NEW p \in Popups, WindowOpen(p) \/ RefuseWindow(p)
    PROVE  Inv'
<1> DEFINE r == popups[p]
<1>1. Sound(r) /\ r.state \in {"absent", "allowed"}
  BY DEF Inv, WindowOpen, RefuseWindow
<1>2. CASE WindowOpen(p)
  <2> DEFINE x == [r EXCEPT !.state = "allowed"]
  <2>1. popups' = [popups EXCEPT ![p] = x]
    BY <1>2 DEF WindowOpen
  <2>2. x \in Popup /\ x.state = "allowed"
    BY <1>1 DEF Sound, Popup
  <2>3. /\ x.step = r.step /\ x.queue = r.queue /\ x.native = r.native
        /\ x.terminal = r.terminal /\ x.shown = r.shown
    BY <1>1 DEF Sound, Popup
  <2> HIDE DEF x
  <2>4. x.native # "Alive" /\ x.terminal = "Pending" /\ ~x.shown /\ x.step = "Idle"
        /\ x.queue = <<>>
    BY <1>1, <2>3 DEF Sound, Present
  <2>5. Evolves(r, x, factor)
    BY <2>2, <2>4 DEF Evolves, Sound, Present
  <2>6. popups'[p] = x
    BY <2>1 DEF Inv
  <2> QED
    BY <1>2, <2>1, <2>5, <2>6, EvolvesInv DEF WindowOpen, OnlyOne
<1>3. CASE RefuseWindow(p)
  <2> DEFINE x == [r EXCEPT !.state = "refused", !.native = "Destroyed"]
  <2>1. popups' = [popups EXCEPT ![p] = x]
    BY <1>3 DEF RefuseWindow
  <2>2. x \in Popup /\ x.state = "refused" /\ x.native = "Destroyed"
    BY <1>1 DEF Sound, Popup
  <2>3. /\ x.step = r.step /\ x.queue = r.queue
        /\ x.terminal = r.terminal /\ x.shown = r.shown
    BY <1>1 DEF Sound, Popup
  <2> HIDE DEF x
  <2>4. x.terminal = "Pending" /\ ~x.shown /\ x.step = "Idle" /\ x.queue = <<>>
    BY <1>1, <2>3 DEF Sound, Present
  <2>5. Evolves(r, x, factor)
    BY <2>2, <2>4 DEF Evolves, Sound, Present
  <2>6. popups'[p] = x
    BY <2>1 DEF Inv
  <2> QED
    BY <1>3, <2>1, <2>5, <2>6, EvolvesInv DEF RefuseWindow, OnlyOne
<1> QED
  BY <1>2, <1>3

LEMMA MoversFence ==
    ASSUME Inv, NEW c \in Calls, KindOf[c] = "Move", OwnerOf[c] \in Owners,
           calls[c].stage \in {"Flights", "Records"}
    PROVE  TerminallyFenced(OwnerOf[c])
<1>1. c \in Movers(OwnerOf[c])
  BY DEF Movers
<1>2. IsFiniteSet(Movers(OwnerOf[c])) /\ moving[OwnerOf[c]] = Cardinality(Movers(OwnerOf[c]))
  BY DEF Inv, MovesCounted
<1>3. moving[OwnerOf[c]] # 0
  BY <1>1, <1>2, FS_EmptySet
<1>4. moving[OwnerOf[c]] \in Nat
  BY DEF Inv
<1> QED
  BY <1>3, <1>4 DEF TerminallyFenced

\* An admission begins: whatever keeps its owner fenced would have refused it.
LEMMA CreateInv ==
    ASSUME Inv, NEW p \in Popups, DidCreateWindow(p)
    PROVE  Inv'
<1> DEFINE r == popups[p]
           x == [r EXCEPT !.state = "admitting", !.native = "Alive",
                          !.queue = <<"Admit">>, !.step = "Admission",
                          !.astray = zoomLease # {}]
<1>1. Sound(r) /\ r.state = "allowed" /\ popups' = [popups EXCEPT ![p] = x]
  BY DEF Inv, DidCreateWindow
<1>2. /\ popups' \in [Popups -> Popup]
      /\ popups'[p].state = "admitting" /\ popups'[p].step = "Admission"
      /\ popups'[p].queue = <<"Admit">> /\ popups'[p].native = "Alive"
      /\ popups'[p].terminal = r.terminal /\ popups'[p].shown = r.shown
      /\ popups'[p].astray = (zoomLease # {})
      /\ \A q \in Popups : q # p => popups'[q] = popups[q]
  <2> DEFINE y == [r EXCEPT !.state = "admitting", !.native = "Alive", !.queue = <<"Admit">>]
  <2>1. y \in Popup
    <3>a. "Admit" \in Tasks
      BY DEF Tasks
    <3>b. <<"Admit">> \in Seq(Tasks)
      BY <3>a
    <3>1. PICK q : q = <<"Admit">> /\ q \in Seq(Tasks)
      BY <3>b
    <3>2. [r EXCEPT !.state = "admitting", !.native = "Alive", !.queue = q] \in Popup
      BY <1>1, <3>1 DEF Sound, Popup, Present, Tasks
    <3> QED
      BY <3>1, <3>2
  <2>2. x = [y EXCEPT !.step = "Admission", !.astray = zoomLease # {}]
    OBVIOUS
  <2>3. /\ y.state = "admitting" /\ y.native = "Alive" /\ y.queue = <<"Admit">>
        /\ y.terminal = r.terminal /\ y.shown = r.shown
    BY <1>1 DEF Sound, Popup
  <2> HIDE DEF x, y
  <2>4. /\ x \in Popup /\ x.step = "Admission" /\ x.astray = (zoomLease # {})
        /\ x.state = y.state /\ x.native = y.native /\ x.queue = y.queue
        /\ x.terminal = y.terminal /\ x.shown = y.shown
    BY <2>1, <2>2, ZenonT(30) DEF Popup
  <2>5. popups'[p] = x
    BY <1>1 DEF Inv
  <2> QED
    BY <1>1, <2>3, <2>4, <2>5 DEF Inv
<1> HIDE DEF x
<1>3. r.terminal = "Pending" /\ ~r.shown
  BY <1>1 DEF Sound
<1>4. Sound(popups'[p]) /\ Zoomed(p)'
  <2>1. <<"Admit">> # <<>> /\ Head(<<"Admit">>) = "Admit"
    OBVIOUS
  <2>2. popups'[p] \in Popup
    BY <1>2
  <2> QED
    BY <1>2, <1>3, <2>1, <2>2 DEF Sound, Zoomed, Present
<1>5. \A q \in Popups : q # p => Sound(popups'[q]) /\ Zoomed(q)'
  BY <1>2 DEF Inv, DidCreateWindow, Zoomed
<1>6. /\ state = "open" /\ OwnerOf[p] \notin retired /\ ~(moving[OwnerOf[p]] > 0)
      /\ \A c \in leases : OwnerOf[c] # OwnerOf[p]
      /\ UNCHANGED <<state, calls, retired, moving, leases, zoomLease, factor>>
  BY DEF DidCreateWindow, Admissible, AdmissionFenced, TerminallyFenced, fences
<1>7. Records' = Records \cup {p}
  BY <1>2, RecordsArePresent DEF Records, Present
<1>8. ASSUME NEW c \in Calls
      PROVE  Ends(c)'
  <2>1. Concerned(c)' = Concerned(c)
    BY DEF Concerned, Owned
  <2>2. ASSUME KindOf[c] \in {"Retire", "Move"}, calls[c].stage \in {"Records", "Done"},
               KindOf[c] = "Move" => calls[c].stage = "Records"
        PROVE  p \notin Concerned(c)
    <3>1. SUFFICES ASSUME OwnerOf[p] = OwnerOf[c]
                   PROVE  FALSE
      BY <2>2 DEF Concerned, Owned
    <3>2. CASE KindOf[c] = "Retire"
      BY <1>6, <2>2, <3>1, <3>2 DEF Inv, Ends
    <3>3. CASE KindOf[c] = "Move"
      <4>1. OwnerOf[c] \in Owners
        BY <3>1 DEF Owners
      <4> QED
        BY <1>6, <2>2, <3>1, <3>3, <4>1, MoversFence DEF TerminallyFenced
    <3> QED
      BY <2>2, <3>2, <3>3
  <2> QED
    BY <1>6, <1>7, <2>1, <2>2 DEF Inv, Ends
<1>9. ASSUME NEW c \in Calls
      PROVE  Reloads(c)'
  <2>1. ASSUME c \in leases, NEW q \in Owned(OwnerOf[c])
        PROVE  Admitting(q)' <=> Admitting(q)
    BY <1>2, <1>6, <2>1 DEF Owned, Admitting
  <2>2. Owned(OwnerOf[c])' = Owned(OwnerOf[c])
    BY DEF Owned
  <2> QED
    BY <1>6, <2>1, <2>2 DEF Inv, Reloads
<1>10. ASSUME NEW c \in Calls
       PROVE  Zooms(c)'
  <2>1. SUFFICES ASSUME KindOf[c] = "Zoom", calls[c].stage \in {"Flights", "Records"}
                 PROVE  Zooms(c)'
    BY <1>6 DEF Zooms
  <2>2. zoomLease = {c} /\ popups'[p].astray
    BY <1>2, <2>1 DEF Inv, Zooms
  <2>3. \A q \in Popups : q # p => (Admitting(q)' <=> Admitting(q))
    BY <1>2 DEF Admitting
  <2> QED
    BY <1>2, <1>6, <2>1, <2>2, <2>3 DEF Inv, Zooms
<1>11. MovesCounted'
  BY <1>6 DEF Inv, MovesCounted, Movers
<1> QED
  BY <1>2, <1>4, <1>5, <1>6, <1>8, <1>9, <1>10, <1>11 DEF Inv

-----------------------------------------------------------------------------
(* The calls                                                               *)

\* Only the call c has changed.
LEMMA StageOfOne ==
    ASSUME Inv, NEW c \in Calls, NEW stage, NEW awaits, Stage(c, stage, awaits)
    PROVE  /\ DOMAIN calls' = Calls /\ \A d \in Calls : DOMAIN calls'[d] = {"stage", "awaits"}
           /\ calls'[c].stage = stage /\ calls'[c].awaits = awaits
           /\ \A d \in Calls : d # c => calls'[d] = calls[d]
  BY DEF Inv, Stage

LEMMA SameRecords ==
    ASSUME Inv, popups' = popups
    PROVE  /\ FewerRecords
           /\ \A p \in Popups : Sound(popups'[p]) /\ (factor' = factor => Zoomed(p)')
  BY DEF Inv, FewerRecords, Admitting, Zoomed

\* Every other call stands where it stood; a zoom that holds the lease is the only one.
LEMMA OtherCalls ==
    ASSUME Inv, FewerRecords, NEW c \in Calls,
           \A d \in Calls : d # c => calls'[d] = calls[d],
           retired \subseteq retired', state' = state \/ state' # "open",
           leases' \subseteq leases \cup {c},
           \/ zoomLease' = zoomLease
           \/ KindOf[c] = "Zoom" /\ zoomLease \in {{}, {c}}
    PROVE  \A d \in Calls : d # c => Ends(d)' /\ Reloads(d)' /\ Zooms(d)'
<1> SUFFICES ASSUME NEW d \in Calls, d # c
             PROVE  Ends(d)' /\ Reloads(d)' /\ Zooms(d)'
  OBVIOUS
<1>1. Records' \subseteq Records
  BY RecordsArePresent DEF FewerRecords, Records, Present
<1>2. Concerned(d)' = Concerned(d) /\ Owned(OwnerOf[d])' = Owned(OwnerOf[d])
  BY DEF Concerned, Owned
<1>3. Ends(d)'
  BY <1>1, <1>2 DEF Inv, Ends
<1>4. Reloads(d)'
  <2>1. Owned(OwnerOf[d]) \subseteq Popups
    BY DEF Owned
  <2> QED
    BY <1>2, <2>1 DEF Inv, Reloads, FewerRecords
<1>5. Zooms(d)'
  <2>1. KindOf[d] = "Zoom" /\ calls[d].stage \in {"Flights", "Records"} =>
           zoomLease = {d} /\ zoomLease' = zoomLease
    BY DEF Inv, Zooms
  <2> QED
    BY <2>1 DEF Inv, Zooms, FewerRecords
<1> QED
  BY <1>3, <1>4, <1>5

\* The moves under way, when the call c is none of them, before or after.
LEMMA OtherMovers ==
    ASSUME Inv, NEW c \in Calls, \A d \in Calls : d # c => calls'[d] = calls[d],
           \/ KindOf[c] # "Move"
           \/ calls[c].stage \in {"Flights", "Records"} /\ calls'[c].stage \in {"Flights", "Records"},
           moving' = moving
    PROVE  MovesCounted'
<1>1. \A o \in Owners : Movers(o)' = Movers(o)
  BY DEF Movers
<1> QED
  BY <1>1 DEF Inv, MovesCounted

\* An admission under way is a flight.
LEMMA AdmittingIsFlight ==
    ASSUME Inv, NEW p \in Popups, Admitting(p)
    PROVE  p \in Flights
  BY RecordsArePresent DEF Inv, Sound, Admitting, Flights, Present

LEMMA RetireInv ==
    ASSUME Inv, NEW c \in Calls, Retire(c) \/ Dispose(c)
    PROVE  Inv'
<1>1. PICK awaits : Stage(c, "Flights", awaits)
  BY DEF Retire, Dispose
<1>2. /\ KindOf[c] \in {"Retire", "Dispose"} /\ popups' = popups /\ factor' = factor
      /\ moving' = moving /\ zoomLease' = zoomLease
      /\ leases' \subseteq leases /\ retired \subseteq retired'
      /\ state' = state \/ state' = "draining"
      /\ KindOf[c] = "Retire" => OwnerOf[c] \in retired'
      /\ KindOf[c] = "Dispose" => state' = "draining"
  BY DEF Retire, Dispose, Begins, WithoutLeases, fences
<1>3. /\ calls'[c].stage = "Flights"
      /\ DOMAIN calls' = Calls /\ \A d \in Calls : DOMAIN calls'[d] = {"stage", "awaits"}
      /\ \A d \in Calls : d # c => calls'[d] = calls[d]
  BY <1>1, StageOfOne
<1>4. FewerRecords /\ \A p \in Popups : Sound(popups'[p]) /\ Zoomed(p)'
  BY <1>2, SameRecords
<1>5. \A d \in Calls : d # c => Ends(d)' /\ Reloads(d)' /\ Zooms(d)'
  BY <1>2, <1>3, <1>4, OtherCalls
<1>6. Ends(c)' /\ Reloads(c)' /\ Zooms(c)'
  BY <1>2, <1>3 DEF Ends, Reloads, Zooms, Inv
<1>7. MovesCounted'
  BY <1>2, <1>3, OtherMovers
<1> QED
  BY <1>2, <1>3, <1>4, <1>5, <1>6, <1>7 DEF Inv

LEMMA MoveInv ==
    ASSUME Inv, NEW c \in Calls, Move(c)
    PROVE  Inv'
<1>1. PICK awaits : Stage(c, "Flights", awaits)
  BY DEF Move
<1>2. /\ KindOf[c] = "Move" /\ calls[c].stage = "Idle" /\ popups' = popups /\ factor' = factor
      /\ zoomLease' = zoomLease /\ leases' \subseteq leases /\ retired' = retired
      /\ state' = state /\ moving' = [moving EXCEPT ![OwnerOf[c]] = @ + 1]
  BY DEF Move, Begins, WithoutLeases
<1>3. /\ calls'[c].stage = "Flights"
      /\ DOMAIN calls' = Calls /\ \A d \in Calls : DOMAIN calls'[d] = {"stage", "awaits"}
      /\ \A d \in Calls : d # c => calls'[d] = calls[d]
  BY <1>1, StageOfOne
<1>4. FewerRecords /\ \A p \in Popups : Sound(popups'[p]) /\ Zoomed(p)'
  BY <1>2, SameRecords
<1>5. \A d \in Calls : d # c => Ends(d)' /\ Reloads(d)' /\ Zooms(d)'
  BY <1>2, <1>3, <1>4, OtherCalls
<1>6. Ends(c)' /\ Reloads(c)' /\ Zooms(c)'
  BY <1>2, <1>3 DEF Ends, Reloads, Zooms, Inv
<1>7. moving' \in [Owners -> Nat]
  <2>1. moving \in [Owners -> Nat]
    BY DEF Inv
  <2>2. OwnerOf[c] \in Owners => moving[OwnerOf[c]] + 1 \in Nat
    BY <2>1
  <2> QED
    BY <1>2, <2>1, <2>2
<1>8. ASSUME NEW o \in Owners
      PROVE  IsFiniteSet(Movers(o)') /\ moving'[o] = Cardinality(Movers(o)')
  <2>1. IsFiniteSet(Movers(o)) /\ moving[o] = Cardinality(Movers(o))
    BY DEF Inv, MovesCounted
  <2>2. CASE o = OwnerOf[c]
    <3>1. Movers(o)' = Movers(o) \cup {c} /\ c \notin Movers(o)
      BY <1>2, <1>3, <2>2 DEF Movers
    <3>2. moving'[o] = moving[o] + 1
      BY <1>2, <2>2 DEF Inv
    <3> QED
      BY <2>1, <3>1, <3>2, FS_AddElement
  <2>3. CASE o # OwnerOf[c]
    <3>1. Movers(o)' = Movers(o)
      BY <1>3, <2>3 DEF Movers
    <3>2. moving'[o] = moving[o]
      BY <1>2, <2>3 DEF Inv
    <3> QED
      BY <2>1, <3>1, <3>2
  <2> QED
    BY <2>2, <2>3
<1> QED
  BY <1>2, <1>3, <1>4, <1>5, <1>6, <1>7, <1>8 DEF Inv, MovesCounted

LEMMA LeaseInv ==
    ASSUME Inv, NEW c \in Calls, Reload(c) \/ Zoom(c)
    PROVE  Inv'
<1>1. PICK awaits : Stage(c, "Flights", awaits) /\ awaits = FlightsBefore(c)
  BY DEF Reload, Zoom
<1>2. /\ popups' = popups /\ factor' = factor /\ moving' = moving
      /\ leases' \subseteq leases \cup {c} /\ retired' = retired /\ state' = state
      /\ KindOf[c] \in {"Reload", "Zoom"}
      /\ KindOf[c] = "Reload" => zoomLease' = zoomLease
      /\ KindOf[c] = "Zoom" => zoomLease = {} /\ zoomLease' = {c} /\ leases' = leases
  BY DEF Reload, Zoom, Begins
<1>3. /\ calls'[c].stage = "Flights" /\ calls'[c].awaits = awaits
      /\ DOMAIN calls' = Calls /\ \A d \in Calls : DOMAIN calls'[d] = {"stage", "awaits"}
      /\ \A d \in Calls : d # c => calls'[d] = calls[d]
  BY <1>1, StageOfOne
<1>4. FewerRecords /\ \A p \in Popups : Sound(popups'[p]) /\ Zoomed(p)'
  BY <1>2, SameRecords
<1>5. \A d \in Calls : d # c => Ends(d)' /\ Reloads(d)' /\ Zooms(d)'
  <2>1. \/ zoomLease' = zoomLease
        \/ KindOf[c] = "Zoom" /\ zoomLease \in {{}, {c}}
    BY <1>2
  <2> QED
    BY <1>2, <1>3, <1>4, <2>1, OtherCalls
<1>6. \A p \in Popups : Admitting(p)' <=> Admitting(p)
  BY <1>2 DEF Admitting
<1>7. Ends(c)'
  BY <1>2 DEF Ends
<1>8. Reloads(c)'
  <2>1. CASE KindOf[c] = "Reload"
    <3>1. ASSUME NEW p \in Owned(OwnerOf[c]), Admitting(p)'
          PROVE  p \in awaits
      BY <1>1, <1>6, <2>1, <3>1, AdmittingIsFlight DEF FlightsBefore, OwnFlights, Owned
    <3> QED
      BY <1>3, <2>1, <3>1 DEF Reloads, Owned
  <2>2. CASE KindOf[c] = "Zoom"
    BY <1>2, <2>2 DEF Inv, Reloads
  <2> QED
    BY <1>2, <2>1, <2>2
<1>9. Zooms(c)'
  <2>1. ASSUME NEW p \in Popups, Admitting(p)', KindOf[c] = "Zoom"
        PROVE  p \in awaits
    BY <1>1, <1>6, <2>1, AdmittingIsFlight DEF FlightsBefore
  <2> QED
    BY <1>2, <1>3, <2>1 DEF Zooms
<1>10. MovesCounted'
  BY <1>2, <1>3, OtherMovers
<1> QED
  BY <1>2, <1>3, <1>4, <1>5, <1>7, <1>8, <1>9, <1>10 DEF Inv

LEMMA FlightsLandInv ==
    ASSUME Inv, NEW c \in Calls, FlightsLand(c)
    PROVE  Inv'
<1> DEFINE S == Subjects(c)
           task == IF KindOf[c] \in {"Reload", "Zoom"} THEN "Sync" ELSE "Close"
<1>1. /\ Stage(c, "Records", S) /\ calls[c].stage = "Flights"
      /\ calls[c].awaits \cap Flights = {}
      /\ popups' = [p \in Popups |-> IF p \in S THEN [popups[p] EXCEPT !.queue = Append(@, task)]
                                     ELSE popups[p]]
      /\ UNCHANGED <<state, retired, moving, leases, zoomLease, factor>>
  BY DEF FlightsLand, fences
<1>2. S \subseteq Records
  BY DEF Subjects, Owned
<1>3. ASSUME NEW p \in Popups
      PROVE  /\ Sound(popups'[p])
             /\ popups'[p].state = popups[p].state /\ popups'[p].astray = popups[p].astray
             /\ popups'[p].shown = popups[p].shown /\ popups'[p].zoom = popups[p].zoom
             /\ popups'[p].step = popups[p].step
  <2>1. Sound(popups[p])
    BY DEF Inv
  <2>2. CASE p \in S
    <3> DEFINE x == [popups[p] EXCEPT !.queue = Append(@, task)]
    <3>1. popups'[p] = x /\ popups[p].state \in Present
      BY <1>1, <1>2, <2>2, RecordsArePresent
    <3>2. Evolves(popups[p], x, factor)
      BY <2>1, <3>1, AppendEvolves, Zenon DEF Tasks
    <3>3. /\ x.state = popups[p].state /\ x.astray = popups[p].astray
          /\ x.shown = popups[p].shown /\ x.zoom = popups[p].zoom
          /\ x.step = popups[p].step
      BY <2>1 DEF Sound, Popup
    <3> HIDE DEF x
    <3> QED
      BY <3>1, <3>2, <3>3 DEF Evolves
  <2>3. CASE p \notin S
    BY <1>1, <2>1, <2>3
  <2> QED
    BY <2>2, <2>3
<1> HIDE DEF task
<1>4. popups' \in [Popups -> Popup]
  BY <1>1, <1>3 DEF Sound
<1>5. \A p \in Popups : Admitting(p)' <=> Admitting(p)
  BY <1>3 DEF Admitting
<1>6. FewerRecords /\ \A p \in Popups : Zoomed(p)'
  BY <1>1, <1>3, <1>4, <1>5 DEF FewerRecords, Zoomed, Inv
<1>7. /\ calls'[c].stage = "Records" /\ calls'[c].awaits = S
      /\ DOMAIN calls' = Calls /\ \A d \in Calls : DOMAIN calls'[d] = {"stage", "awaits"}
      /\ \A d \in Calls : d # c => calls'[d] = calls[d]
  BY <1>1, StageOfOne
<1>8. \A d \in Calls : d # c => Ends(d)' /\ Reloads(d)' /\ Zooms(d)'
  BY <1>1, <1>6, <1>7, OtherCalls
<1>9. Records' = Records
  BY <1>3, RecordsArePresent DEF Records, Present
<1>10. Ends(c)'
  <2>1. /\ KindOf[c] \in {"Retire", "Move"} => S = Records \cap Owned(OwnerOf[c])
        /\ KindOf[c] = "Dispose" => S = Records
    BY DEF Subjects
  <2> HIDE DEF S
  <2>2. Concerned(c)' = IF KindOf[c] = "Dispose" THEN Popups ELSE Owned(OwnerOf[c])
    BY DEF Concerned, Owned
  <2> QED
    BY <1>1, <1>7, <1>9, <2>1, <2>2 DEF Inv, Ends
<1>11. Reloads(c)'
  <2>1. ASSUME c \in leases, NEW p \in Owned(OwnerOf[c]), Admitting(p)'
        PROVE  FALSE
    <3>1. p \in Popups /\ Admitting(p)
      BY <1>5, <2>1 DEF Owned
    <3>2. p \in calls[c].awaits
      BY <1>1, <2>1, <3>1 DEF Inv, Reloads
    <3> QED
      BY <1>1, <3>1, <3>2, AdmittingIsFlight
  <2>2. Owned(OwnerOf[c])' = Owned(OwnerOf[c])
    BY DEF Owned
  <2> QED
    BY <1>1, <1>7, <2>1, <2>2 DEF Inv, Reloads
<1>12. Zooms(c)'
  <2>1. SUFFICES ASSUME KindOf[c] = "Zoom"
                 PROVE  Zooms(c)'
    BY DEF Zooms
  <2>2. ASSUME NEW p \in Popups, ~popups[p].astray
        PROVE  ~Admitting(p) /\ (popups[p].shown => p \in S)
    <3>1. ~Admitting(p)
      BY <1>1, <2>1, <2>2, AdmittingIsFlight DEF Inv, Zooms
    <3>2. ASSUME popups[p].shown
          PROVE  p \in S
      <4>1. popups[p].state \in {"nativeReady", "ready"} /\ popups[p].core # "None"
        BY <3>2 DEF Inv, Sound
      <4> QED
        BY <2>1, <4>1, RecordsArePresent DEF Subjects, Present
    <3> QED
      BY <3>1, <3>2
  <2> HIDE DEF S
  <2> QED
    BY <1>1, <1>3, <1>5, <1>7, <2>1, <2>2 DEF Inv, Zooms
<1>13. MovesCounted'
  BY <1>1, <1>7, OtherMovers
<1> QED
  BY <1>1, <1>3, <1>4, <1>6, <1>7, <1>8, <1>10, <1>11, <1>12, <1>13 DEF Inv

\* When nothing that a call awaits is left of what it is about, nothing is left.
LEMMA AllTerminalLeavesNone ==
    ASSUME Inv, NEW c \in Calls, KindOf[c] \in {"Retire", "Move", "Dispose"},
           calls[c].stage = "Records", AllTerminal(c)
    PROVE  Concerned(c) \cap Records = {}
<1> SUFFICES ASSUME NEW p \in Concerned(c) \cap Records
             PROVE  FALSE
  OBVIOUS
<1>1. p \in Popups /\ p \in calls[c].awaits
  BY DEF Inv, Ends, Records
<1>2. popups[p].state = "terminal"
  BY <1>1 DEF AllTerminal, Inv, Sound
<1> QED
  BY <1>2 DEF Records

LEMMA RetireEndsInv ==
    ASSUME Inv, NEW c \in Calls, RetireEnds(c)
    PROVE  Inv'
<1>1. /\ Stage(c, Outcome(c), {}) /\ KindOf[c] \in {"Retire", "Move", "Dispose"}
      /\ calls[c].stage = "Records" /\ (Rejected(c) \/ AllTerminal(c))
      /\ moving' = MovesLeft(c) /\ leases' \subseteq leases
      /\ state' = state \/ state' = "closed"
      /\ UNCHANGED <<popups, retired, zoomLease, factor>>
  BY DEF RetireEnds
<1>2. /\ calls'[c].stage = Outcome(c)
      /\ DOMAIN calls' = Calls /\ \A d \in Calls : DOMAIN calls'[d] = {"stage", "awaits"}
      /\ \A d \in Calls : d # c => calls'[d] = calls[d]
  BY <1>1, StageOfOne
<1>3. FewerRecords /\ \A p \in Popups : Sound(popups'[p]) /\ Zoomed(p)'
  BY <1>1, SameRecords
<1>4. \A d \in Calls : d # c => Ends(d)' /\ Reloads(d)' /\ Zooms(d)'
  BY <1>1, <1>2, <1>3, OtherCalls
<1>5. Records' = Records /\ Concerned(c)' = Concerned(c)
  BY <1>1 DEF Records, Concerned, Owned
<1>6. Ends(c)'
  <2>1. Outcome(c) = "Done" => Concerned(c) \cap Records = {}
    BY <1>1, AllTerminalLeavesNone DEF Outcome
  <2>2. Outcome(c) \in {"Done", "Failed"}
    BY DEF Outcome
  <2> QED
    BY <1>1, <1>2, <1>5, <2>1, <2>2 DEF Inv, Ends
<1>7. Reloads(c)' /\ Zooms(c)'
  BY <1>1 DEF Inv, Reloads, Zooms
<1>8. moving' \in [Owners -> Nat] /\ MovesCounted'
  <2>1. CASE KindOf[c] # "Move"
    <3>1. moving' = moving
      BY <1>1, <2>1 DEF MovesLeft
    <3> QED
      BY <1>2, <2>1, <3>1, OtherMovers DEF Inv
  <2>2. CASE KindOf[c] = "Move"
    <3>1. moving' = [moving EXCEPT ![OwnerOf[c]] = @ - 1]
      BY <1>1, <2>2 DEF MovesLeft
    <3>2. ASSUME NEW o \in Owners
          PROVE  /\ moving'[o] \in Nat
                 /\ IsFiniteSet(Movers(o)') /\ moving'[o] = Cardinality(Movers(o)')
      <4>1. IsFiniteSet(Movers(o)) /\ moving[o] = Cardinality(Movers(o)) /\ moving[o] \in Nat
        BY DEF Inv, MovesCounted
      <4>2. CASE o = OwnerOf[c]
        <5>1. Movers(o)' = Movers(o) \ {c} /\ c \in Movers(o)
          BY <1>1, <1>2, <2>2, <4>2 DEF Movers, Outcome
        <5>2. moving'[o] = moving[o] - 1
          BY <3>1, <4>2 DEF Inv
        <5>3. IsFiniteSet(Movers(o)') /\ Cardinality(Movers(o)') = Cardinality(Movers(o)) - 1
          BY <4>1, <5>1, FS_RemoveElement
        <5>4. Cardinality(Movers(o)') \in Nat
          BY <5>3, FS_CardinalityType
        <5> QED
          BY <4>1, <5>2, <5>3, <5>4
      <4>3. CASE o # OwnerOf[c]
        <5>1. Movers(o)' = Movers(o)
          BY <1>2, <4>3 DEF Movers
        <5>2. moving'[o] = moving[o]
          BY <3>1, <4>3 DEF Inv
        <5> QED
          BY <4>1, <5>1, <5>2
      <4> QED
        BY <4>2, <4>3
    <3>3. DOMAIN moving' = Owners /\ moving' = [o \in Owners |-> moving'[o]]
      BY <3>1 DEF Inv
    <3> QED
      BY <3>2, <3>3 DEF MovesCounted
  <2> QED
    BY <2>1, <2>2
<1> QED
  BY <1>1, <1>2, <1>3, <1>4, <1>6, <1>7, <1>8 DEF Inv

LEMMA ReloadEndsInv ==
    ASSUME Inv, NEW c \in Calls, ReloadPrepared(c) \/ ReloadReleased(c)
    PROVE  Inv'
<1>1. PICK stage \in {"Held", "Failed", "Done"} : Stage(c, stage, {})
  BY DEF ReloadPrepared, ReloadReleased
<1>2. /\ KindOf[c] = "Reload" /\ calls[c].stage \in {"Records", "Held"}
      /\ leases' \subseteq leases
      /\ UNCHANGED <<state, popups, retired, moving, zoomLease, factor>>
  BY DEF ReloadPrepared, ReloadReleased
<1>3. /\ calls'[c].stage = stage
      /\ DOMAIN calls' = Calls /\ \A d \in Calls : DOMAIN calls'[d] = {"stage", "awaits"}
      /\ \A d \in Calls : d # c => calls'[d] = calls[d]
  BY <1>1, StageOfOne
<1>4. FewerRecords /\ \A p \in Popups : Sound(popups'[p]) /\ Zoomed(p)'
  BY <1>2, SameRecords
<1>5. \A d \in Calls : d # c => Ends(d)' /\ Reloads(d)' /\ Zooms(d)'
  BY <1>2, <1>3, <1>4, OtherCalls
<1>6. Ends(c)' /\ Zooms(c)'
  BY <1>2 DEF Ends, Zooms
<1>7. Reloads(c)'
  BY <1>2, <1>3 DEF Inv, Reloads, Owned, Admitting
<1>8. MovesCounted'
  BY <1>2, <1>3, OtherMovers
<1> QED
  BY <1>2, <1>3, <1>4, <1>5, <1>6, <1>7, <1>8 DEF Inv

\* The candidates are all that is on the screen, but for popups that are astray.
LEMMA ZoomAppliedPopups ==
    ASSUME Inv, NEW c \in Calls, ZoomApplied(c)
    PROVE  /\ FewerRecords /\ factor' \in {0, 1}
           /\ \A p \in Popups : Sound(popups'[p]) /\ Zoomed(p)'
<1>1. /\ KindOf[c] = "Zoom" /\ calls[c].stage = "Records" /\ factor' = 1 - factor
      /\ popups' = [p \in Popups |->
                       IF p \in ZoomCandidates(c) THEN [popups[p] EXCEPT !.zoom = factor']
                       ELSE popups[p]]
  BY DEF ZoomApplied
<1>2. factor' \in {0, 1}
  BY <1>1 DEF Inv
<1>3. ASSUME NEW p \in Popups
      PROVE  /\ popups'[p] \in Popup
             /\ p \in ZoomCandidates(c) => popups'[p].zoom = factor'
             /\ popups'[p].state = popups[p].state /\ popups'[p].astray = popups[p].astray
             /\ popups'[p].shown = popups[p].shown /\ popups'[p].step = popups[p].step
             /\ popups'[p].native = popups[p].native /\ popups'[p].core = popups[p].core
             /\ popups'[p].queue = popups[p].queue /\ popups'[p].terminal = popups[p].terminal
  <2>1. popups[p] \in Popup
    BY DEF Inv
  <2>2. CASE p \in ZoomCandidates(c)
    <3> DEFINE x == [popups[p] EXCEPT !.zoom = factor']
    <3>1. popups'[p] = x
      BY <1>1, <2>2
    <3>2. /\ x \in Popup /\ x.zoom = factor'
          /\ x.state = popups[p].state /\ x.astray = popups[p].astray
          /\ x.shown = popups[p].shown /\ x.step = popups[p].step
          /\ x.native = popups[p].native /\ x.core = popups[p].core
          /\ x.queue = popups[p].queue /\ x.terminal = popups[p].terminal
      BY <1>2, <2>1 DEF Popup
    <3> HIDE DEF x
    <3> QED
      BY <3>1, <3>2
  <2>3. CASE p \notin ZoomCandidates(c)
    BY <1>1, <2>1, <2>3
  <2> QED
    BY <2>2, <2>3
<1>4. \A p \in Popups : Sound(popups'[p])
  BY <1>3 DEF Inv, Sound
<1>5. ASSUME NEW p \in Popups
      PROVE  Zoomed(p)'
  <2>1. SUFFICES ASSUME popups[p].step = "NativeReady" \/ popups[p].shown, ~popups[p].astray
                 PROVE  p \in ZoomCandidates(c)
    BY <1>3 DEF Zoomed
  <2>2. ~Admitting(p) /\ (popups[p].shown => p \in calls[c].awaits)
    BY <1>1, <2>1 DEF Inv, Zooms
  <2>3. popups[p].shown
    BY <2>1, <2>2 DEF Inv, Sound, Admitting
  <2> QED
    BY <2>2, <2>3 DEF Inv, Sound, ZoomCandidates
<1>6. \A p \in Popups : Admitting(p)' <=> Admitting(p)
  BY <1>3 DEF Admitting
<1>7. popups' \in [Popups -> Popup]
  BY <1>1, <1>3
<1> QED
  BY <1>2, <1>3, <1>4, <1>5, <1>6, <1>7 DEF FewerRecords

\* A popup whose rollback fails has another factor than its window, and is astray.
LEMMA ZoomFailsPopups ==
    ASSUME Inv, NEW c \in Calls, ZoomFails(c)
    PROVE  /\ FewerRecords /\ factor' \in {0, 1}
           /\ \A p \in Popups : Sound(popups'[p]) /\ Zoomed(p)'
<1>1. PICK stuck \in SUBSET ZoomCandidates(c) :
         popups' = [p \in Popups |-> IF p \in stuck THEN Stuck(p) ELSE popups[p]]
  BY DEF ZoomFails
<1>2. factor' = factor /\ factor \in {0, 1} /\ 1 - factor \in {0, 1}
  BY DEF ZoomFails, Inv
<1>3. ASSUME NEW p \in Popups
      PROVE  /\ popups'[p] \in Popup
             /\ popups'[p].astray \/ popups'[p] = popups[p]
             /\ popups[p].astray => popups'[p].astray
             /\ popups'[p].state = popups[p].state
             /\ popups'[p].shown = popups[p].shown /\ popups'[p].step = popups[p].step
             /\ popups'[p].native = popups[p].native /\ popups'[p].core = popups[p].core
             /\ popups'[p].queue = popups[p].queue /\ popups'[p].terminal = popups[p].terminal
  <2>1. popups[p] \in Popup
    BY DEF Inv
  <2>2. CASE p \in stuck
    <3> DEFINE x == [popups[p] EXCEPT !.zoom = 1 - factor, !.astray = TRUE]
    <3>1. popups'[p] = x
      BY <1>1, <2>2 DEF Stuck
    <3>2. /\ x \in Popup /\ x.astray
          /\ x.state = popups[p].state
          /\ x.shown = popups[p].shown /\ x.step = popups[p].step
          /\ x.native = popups[p].native /\ x.core = popups[p].core
          /\ x.queue = popups[p].queue /\ x.terminal = popups[p].terminal
      BY <1>2, <2>1 DEF Popup
    <3> HIDE DEF x
    <3> QED
      BY <3>1, <3>2
  <2>3. CASE p \notin stuck
    BY <1>1, <2>1, <2>3
  <2> QED
    BY <2>2, <2>3
<1>4. \A p \in Popups : Sound(popups'[p])
  BY <1>3 DEF Inv, Sound
<1>5. \A p \in Popups : Zoomed(p)'
  BY <1>2, <1>3 DEF Inv, Zoomed
<1>6. \A p \in Popups : Admitting(p)' <=> Admitting(p)
  BY <1>3 DEF Admitting
<1>7. popups' \in [Popups -> Popup]
  BY <1>1, <1>3
<1> QED
  BY <1>2, <1>3, <1>4, <1>5, <1>6, <1>7 DEF FewerRecords

LEMMA ZoomEndsInv ==
    ASSUME Inv, NEW c \in Calls, ZoomApplied(c) \/ ZoomFails(c)
    PROVE  Inv'
<1>1. PICK stage \in {"Done", "Failed"} : Stage(c, stage, {})
  BY DEF ZoomApplied, ZoomFails
<1>2. /\ KindOf[c] = "Zoom" /\ calls[c].stage = "Records" /\ zoomLease' = {}
      /\ UNCHANGED <<state, retired, moving, leases>>
  BY DEF ZoomApplied, ZoomFails
<1>3. /\ calls'[c].stage = stage
      /\ DOMAIN calls' = Calls /\ \A d \in Calls : DOMAIN calls'[d] = {"stage", "awaits"}
      /\ \A d \in Calls : d # c => calls'[d] = calls[d]
  BY <1>1, StageOfOne
<1>4. /\ FewerRecords /\ factor' \in {0, 1}
      /\ \A p \in Popups : Sound(popups'[p]) /\ Zoomed(p)'
  <2>1. CASE ZoomApplied(c)
    BY <2>1, ZoomAppliedPopups
  <2>2. CASE ZoomFails(c)
    BY <2>2, ZoomFailsPopups
  <2> QED
    BY <2>1, <2>2
<1>5. zoomLease = {c}
  BY <1>2 DEF Inv, Zooms
<1>6. \A d \in Calls : d # c => Ends(d)' /\ Reloads(d)' /\ Zooms(d)'
  BY <1>2, <1>3, <1>4, <1>5, OtherCalls
<1>7. Ends(c)' /\ Zooms(c)' /\ Reloads(c)'
  BY <1>2, <1>3 DEF Inv, Ends, Zooms, Reloads
<1>8. MovesCounted'
  BY <1>2, <1>3, OtherMovers
<1> QED
  BY <1>2, <1>3, <1>4, <1>6, <1>7, <1>8 DEF Inv, FewerRecords

-----------------------------------------------------------------------------
LEMMA NextInv == Inv /\ [Next]_vars => Inv'
<1> SUFFICES ASSUME Inv, [Next]_vars
             PROVE  Inv'
  OBVIOUS
<1>1. CASE UNCHANGED vars
  <2>1. FewerRecords /\ \A p \in Popups : Sound(popups'[p]) /\ Zoomed(p)'
    BY <1>1, SameRecords DEF vars
  <2>2. UNCHANGED <<state, calls, fences>>
    BY <1>1 DEF vars, fences
  <2> QED
    BY <1>1, <2>1, <2>2, FewerRecordsKeepCalls DEF vars, Inv
<1>2. ASSUME NEW p \in Popups, WindowOpen(p) \/ RefuseWindow(p)
      PROVE  Inv'
  BY <1>2, AllowedInv
<1>3. ASSUME NEW p \in Popups, DidCreateWindow(p)
      PROVE  Inv'
  BY <1>3, CreateInv
<1>4. ASSUME NEW p \in Popups,
             \/ WindowCloses(p) \/ WindowClosed(p) \/ LoadFails(p) \/ LoadFinishes(p)
             \/ TaskStarts(p) \/ CoreAnswers(p) \/ ShowFails(p) \/ StepFails(p)
      PROVE  Inv'
  <2>1. Sound(popups[p]) /\ DOMAIN popups = Popups /\ factor \in {0, 1}
    BY DEF Inv
  <2>2. OnlyOne(p) /\ Evolves(popups[p], popups'[p], factor)
    BY <1>4, <2>1, ListenersEvolve, TaskStartsEvolves, AnswersEvolve DEF OnlyOne
  <2>3. UNCHANGED <<state, calls, fences, factor>>
    BY <1>4 DEF WindowCloses, WindowClosed, LoadFails, LoadFinishes, TaskStarts, ShowFails,
                StepFails, CoreAnswers, AdmissionAnswered, NativeReadyAnswered, PageReadyAnswered,
                CloseAnswered, NativeClosedAnswered, CancelAnswered, FailureAnswered, Answered
  <2> QED
    BY <2>2, <2>3, EvolvesInv
<1>5. ASSUME NEW c \in Calls, Retire(c) \/ Move(c) \/ Reload(c) \/ Zoom(c) \/ Dispose(c)
      PROVE  Inv'
  BY <1>5, RetireInv, MoveInv, LeaseInv
<1>6. ASSUME NEW c \in Calls, CallContinues(c) \/ ReloadReleased(c)
      PROVE  Inv'
  BY <1>6, FlightsLandInv, RetireEndsInv, ReloadEndsInv, ZoomEndsInv DEF CallContinues
<1> QED
  BY <1>1, <1>2, <1>3, <1>4, <1>5, <1>6 DEF Next

LEMMA InvAlways == Spec => []Inv
  BY InitInv, NextInv, PTL DEF Spec

\* What a call has fenced off stays out, for any popups, owners, calls and bounds: when
\* a retirement or dispose has returned without an error no popup that it was about has
\* a window, then or later, and no popup is admitted while a reload holds its lease.
THEOREM FencedStayOut == Spec => []FencesKeepPopupsOut
<1>1. Inv => FencesKeepPopupsOut
  <2> SUFFICES ASSUME Inv
               PROVE  FencesKeepPopupsOut
    OBVIOUS
  <2>1. ASSUME NEW c \in Calls, KindOf[c] \in {"Retire", "Dispose"}, calls[c].stage = "Done",
               NEW p \in Popups, popups[p].native = "Alive",
               KindOf[c] = "Dispose" \/ OwnerOf[p] = OwnerOf[c]
        PROVE  FALSE
    <3>1. p \in Concerned(c)
      BY <2>1 DEF Concerned, Owned
    <3>2. p \in Records
      BY <2>1 DEF Inv, Sound, Records
    <3> QED
      BY <2>1, <3>1, <3>2 DEF Inv, Ends
  <2>2. LeavesNoPopup
    BY <2>1 DEF LeavesNoPopup
  <2>3. ReloadKeepsAdmissionsOut
    <3>1. \A c \in leases : Reloads(c)
      BY DEF Inv
    <3> QED
      BY <3>1 DEF ReloadKeepsAdmissionsOut, Reloads, Admitting
  <2> QED
    BY <2>2, <2>3 DEF FencesKeepPopupsOut
<1> QED
  BY <1>1, InvAlways, PTL

\* A popup on the screen has the zoom factor of its window, unless its admission began
\* while a change of the zoom held the lease, or it refused the rollback of one: every
\* other admission is awaited before the popups that take the new factor are chosen, and
\* a change that fails leaves every other popup with the factor that it had.
THEOREM ShownAreZoomed == Spec => []ZoomFollowsWindow
<1>1. Inv => ZoomFollowsWindow
  BY DEF Inv, Zoomed, ZoomFollowsWindow
<1> QED
  BY <1>1, InvAlways, PTL

\* When the retirement of an owner's popups for a move returns without an error,
\* none of them has a window, however many moves of the owner overlap.
THEOREM MovedLeaveNone == Spec => MoveLeavesNoPopup
<1>1. Inv /\ [Next]_vars =>
         [\A c \in Calls :
            (KindOf[c] = "Move" /\ calls[c].stage = "Records" /\ calls'[c].stage = "Done") =>
               \A p \in Owned(OwnerOf[c]) : popups'[p].native # "Alive"]_vars
  <2> SUFFICES ASSUME Inv, Next, NEW c \in Calls, KindOf[c] = "Move",
                      calls[c].stage = "Records", calls'[c].stage = "Done",
                      NEW p \in Owned(OwnerOf[c])
               PROVE  popups'[p].native # "Alive"
    BY DEF vars
  <2>1. ASSUME NEW d \in Calls, NEW stage, NEW awaits, Stage(d, stage, awaits)
        PROVE  d = c /\ stage = "Done"
    BY <2>1, StageOfOne
  <2>2. ASSUME NEW q \in Popups,
               \/ WindowOpen(q) \/ DidCreateWindow(q) \/ RefuseWindow(q)
               \/ WindowCloses(q) \/ WindowClosed(q) \/ LoadFails(q) \/ LoadFinishes(q)
               \/ TaskStarts(q) \/ CoreAnswers(q) \/ ShowFails(q) \/ StepFails(q)
        PROVE  FALSE
    <3>1. calls' = calls
      BY <2>2 DEF WindowOpen, DidCreateWindow, RefuseWindow, WindowCloses, WindowClosed,
                  LoadFails, LoadFinishes, TaskStarts, ShowFails, StepFails, CoreAnswers,
                  AdmissionAnswered, NativeReadyAnswered, PageReadyAnswered, CloseAnswered,
                  NativeClosedAnswered, CancelAnswered, FailureAnswered, Answered
    <3> QED
      BY <3>1
  <2>3. ASSUME NEW d \in Calls, Retire(d) \/ Move(d) \/ Reload(d) \/ Zoom(d) \/ Dispose(d)
        PROVE  FALSE
    BY <2>1, <2>3 DEF Retire, Move, Reload, Zoom, Dispose
  <2>4. ASSUME NEW d \in Calls,
               \/ FlightsLand(d) \/ ReloadPrepared(d) \/ ReloadReleased(d)
               \/ ZoomApplied(d) \/ ZoomFails(d)
        PROVE  FALSE
    BY <2>1, <2>4 DEF FlightsLand, ReloadPrepared, ReloadReleased, ZoomApplied, ZoomFails
  <2>5. PICK d \in Calls : RetireEnds(d)
    BY <2>2, <2>3, <2>4 DEF Next, CallContinues
  <2>6. d = c /\ Outcome(c) = "Done" /\ popups' = popups
    BY <2>1, <2>5 DEF RetireEnds
  <2>7. AllTerminal(c)
    BY <2>5, <2>6 DEF RetireEnds, Outcome
  <2>8. p \notin Records /\ p \in Popups
    BY <2>7, AllTerminalLeavesNone DEF Concerned, Owned
  <2> QED
    BY <2>6, <2>8 DEF Inv, Sound, Records
<1> QED
  BY <1>1, InvAlways, PTL DEF Spec, MoveLeavesNoPopup

=============================================================================
