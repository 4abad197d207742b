---------------------------- MODULE RoleOwnership ----------------------------
(***************************************************************************)
(* RoleOwnershipRuntime (browser_runtime): which slot of which runtime tab *)
(* owns the one game surface of a role.  The kernel's actor thread runs    *)
(* one command at a time and drops what a failed one did, so that an       *)
(* action is a command that succeeds.  The callers work on a snapshot:     *)
(* what they ask for may be outdated when their command runs.              *)
(*                                                                         *)
(* A slot is named by its role: a tab has at most one slot for a role.     *)
(***************************************************************************)
EXTENDS Naturals, FiniteSets

CONSTANTS
    Roles,
    Sources,        \* the roles and workspaces that can be launched
    SlotsOf,        \* source -> the roles its tab has slots for
    TabIds,
    Windows,
    Callers,        \* those who act on a snapshot they took earlier
    MaxGeneration,  \* bound: owners that are created (2^64 - 1 in the code)
    MaxAttempts     \* bound: launch attempts

ASSUME SlotsAssumption == SlotsOf \in [Sources -> SUBSET Roles]

VARIABLES
    next_owner_generation,
    roles,          \* role -> [tab, generation, state], for the owned ones
    tabs,           \* tab -> [source, attempt, window, muted, slots]
    attempts,       \* launch attempts so far; each has an id of its own
    intents,        \* caller -> the command it is about to send
    owners          \* history: the <<generation, role, tab>> of every owner

vars == <<next_owner_generation, roles, tabs, attempts, intents, owners>>

None == "None"

Put(f, k, v) == [x \in DOMAIN f \cup {k} |-> IF x = k THEN v ELSE f[x]]
Without(f, S) == [x \in DOMAIN f \ S |-> f[x]]

Init ==
    /\ next_owner_generation = 0
    /\ roles = <<>>
    /\ tabs = <<>>
    /\ attempts = 0
    /\ intents = [c \in Callers |-> [kind |-> None, status |-> None]]
    /\ owners = {}

-----------------------------------------------------------------------------
\* What the slot of role r in tab t shows, for the owners in rs.
SlotState(rs, t, r) ==
    IF r \notin DOMAIN rs THEN [state |-> "available", generation |-> 0]
    ELSE [state |-> IF rs[r].tab = t THEN rs[r].state ELSE "blocked",
          generation |-> rs[r].generation]

\* Mutant: only the slots of the owning tabs are brought up to date.
RefreshedOwners(rs, ts) ==
    [t \in DOMAIN ts |-> [ts[t] EXCEPT !.slots =
        [r \in DOMAIN @ |-> IF r \in DOMAIN rs /\ rs[r].tab = t
                            THEN SlotState(rs, t, r) ELSE @[r]]]]

\* refresh_slot_states
Refreshed(rs, ts) ==
    [t \in DOMAIN ts |-> [ts[t] EXCEPT !.slots =
        [r \in DOMAIN @ |-> SlotState(rs, t, r)]]]

\* The owner of role r, if it has one.
Owner(rs, r) == {<<rs[q].tab, rs[q].generation>> : q \in {r} \cap DOMAIN rs}

\* The owners in tab t, by generation.
Fences(rs, t) ==
    {<<r, rs[r].generation>> : r \in {q \in DOMAIN rs : rs[q].tab = t}}

\* What caller's intent i rests on is lost with rs and ts: the owner that a
\* takeover is to replace; the launch, or one of the owners, that a mute is for.
Outdated(i, rs, ts) ==
    \/ i.kind = "claim" /\ Owner(rs, i.role) # Owner(roles, i.role)
    \/ /\ i.kind = "mute"
       /\ \/ i.tab \notin DOMAIN ts
          \/ ts[i.tab].attempt # i.attempt
          \/ ~(i.fences \subseteq Fences(rs, i.tab))

\* The intents that rs and ts outdate.
Outrun(rs, ts) ==
    [c \in Callers |->
        IF intents[c].status = "open" /\ Outdated(intents[c], rs, ts)
        THEN [intents[c] EXCEPT !.outrun = TRUE] ELSE intents[c]]

Leaves(rs, ts) ==
    /\ roles' = rs
    /\ tabs' = ts
    /\ intents' = Outrun(rs, ts)

\* What the command of caller c leaves behind; it does not outdate itself.
CommittedBy(c, rs, ts) ==
    /\ roles' = rs
    /\ tabs' = ts
    /\ intents' = [Outrun(rs, ts) EXCEPT ![c] = [intents[c] EXCEPT !.status = "applied"]]

Updates(rs, ts) == Leaves(rs, Refreshed(rs, ts))

-----------------------------------------------------------------------------
\* CreateTab for a source without a tab: a launch with an attempt of its own.
\* (A second launch of the source finds its tab and changes nothing.)
CreateTab(t, s, w) ==
    /\ attempts < MaxAttempts
    /\ t \notin DOMAIN tabs
    /\ \A u \in DOMAIN tabs : tabs[u].source # s
    /\ attempts' = attempts + 1
    /\ Updates(roles,
             Put(tabs, t, [source |-> s, attempt |-> attempts + 1, window |-> w,
                           muted |-> FALSE,
                           slots |-> [r \in SlotsOf[s] |->
                                         [state |-> "available", generation |-> 0]]]))
    /\ UNCHANGED <<next_owner_generation, owners>>

\* The owners that are left when the tabs in T are gone.
OwnersOutside(T) == [r \in {q \in DOMAIN roles : roles[q].tab \notin T} |-> roles[r]]

\* RemoveTab, and CloseTabs for a window that is closed
CloseTabs(T) ==
    /\ Updates(OwnersOutside(T), Without(tabs, T))
    /\ UNCHANGED <<next_owner_generation, attempts, owners>>

\* Mutant: generations are counted per role, from the owner that it has.
NextGenerationOfRole(r) == IF r \in DOMAIN roles THEN roles[r].generation + 1 ELSE 1

\* next_owner
NextGeneration(r) == next_owner_generation + 1

NewOwner(r, t) ==
    /\ next_owner_generation < MaxGeneration
    /\ next_owner_generation' = NextGeneration(r)
    /\ owners' = owners \cup {<<NextGeneration(r), r, t>>}

\* Mutant: a late launch completion is accepted from a role that is stopped.
AnyTransition(from, to) == from # None \/ to = "launching"

ValidTransition(from, to) ==
    <<from, to>> \in {<<None, "launching">>,
                      <<"launching", "launching">>, <<"launching", "running">>,
                      <<"launching", "stopping">>,
                      <<"running", "running">>, <<"running", "stopping">>,
                      <<"stopping", "stopping">>}

\* RoleTransition of a role that has an owner, by that owner
AdvanceRole(r, to) ==
    /\ r \in DOMAIN roles
    /\ roles[r].tab \in DOMAIN tabs
    /\ r \in DOMAIN tabs[roles[r].tab].slots
    /\ ValidTransition(roles[r].state, to)
    /\ Updates([roles EXCEPT ![r].state = to], tabs)
    /\ UNCHANGED <<next_owner_generation, attempts, owners>>

\* RoleTransition of a role that has none: the slot becomes its owner.
AdmitRole(r, t) ==
    /\ r \notin DOMAIN roles
    /\ t \in DOMAIN tabs
    /\ r \in DOMAIN tabs[t].slots
    /\ NewOwner(r, t)
    /\ Updates(Put(roles, r, [tab |-> t, generation |-> NextGeneration(r), state |-> "launching"]),
             tabs)
    /\ UNCHANGED attempts

\* ReleaseRole by a caller that expects the role in the tab that owns it
ReleaseRole(r) ==
    /\ r \in DOMAIN roles
    /\ Updates(Without(roles, {r}), tabs)
    /\ UNCHANGED <<next_owner_generation, attempts, owners>>

\* synchronize_tab_window_owners, after a topology commit moved tab t
MoveTab(t, w) ==
    /\ t \in DOMAIN tabs
    /\ tabs[t].window # w
    /\ Leaves(roles, [tabs EXCEPT ![t].window = w])
    /\ UNCHANGED <<next_owner_generation, attempts, owners>>

-----------------------------------------------------------------------------
\* A caller takes a snapshot and decides to move role r to its slot in tab t.
\* expected_owner_generation is the one that the slot shows, 0 for none.
PlanClaim(c, r, t) ==
    /\ t \in DOMAIN tabs
    /\ r \in DOMAIN tabs[t].slots
    /\ intents' = [intents EXCEPT ![c] =
          [kind |-> "claim", role |-> r, tab |-> t,
           expected |-> tabs[t].slots[r].generation,
           status |-> "open", outrun |-> FALSE]]
    /\ UNCHANGED <<next_owner_generation, roles, tabs, attempts, owners>>

\* A caller takes a snapshot and decides to mute tab t, or to end that.
PlanMute(c, t) ==
    /\ t \in DOMAIN tabs
    /\ Fences(roles, t) # {}
    /\ intents' = [intents EXCEPT ![c] =
          [kind |-> "mute", tab |-> t, window |-> tabs[t].window,
           attempt |-> tabs[t].attempt, was |-> tabs[t].muted,
           fences |-> Fences(roles, t), status |-> "open", outrun |-> FALSE]]
    /\ UNCHANGED <<next_owner_generation, roles, tabs, attempts, owners>>

\* Mutant: a takeover does not look at the owner it replaces.
ClaimableByAnyone(i) == i.tab \in DOMAIN tabs /\ i.role \in DOMAIN tabs[i.tab].slots

Claimable(i) ==
    /\ i.tab \in DOMAIN tabs
    /\ i.role \in DOMAIN tabs[i.tab].slots
    /\ IF i.role \in DOMAIN roles
       THEN roles[i.role].generation = i.expected /\ roles[i.role].tab # i.tab
       ELSE i.expected = 0

\* Mutant: the generations of the owners are not compared.
MutableOnceOwned(i) ==
    /\ i.tab \in DOMAIN tabs
    /\ tabs[i.tab].window = i.window
    /\ tabs[i.tab].attempt = i.attempt
    /\ tabs[i.tab].muted = i.was

Mutable(i) ==
    /\ MutableOnceOwned(i)
    /\ Fences(roles, i.tab) = i.fences

\* ClaimRoleSlot: the role goes over to the slot, whoever had it.
ClaimRoleSlot(c) ==
    LET i == intents[c]
    IN  /\ i.kind = "claim" /\ i.status = "open"
        /\ Claimable(i)
        /\ NewOwner(i.role, i.tab)
        /\ LET rs == Put(roles, i.role, [tab |-> i.tab, generation |-> NextGeneration(i.role),
                                         state |-> "launching"])
           IN  CommittedBy(c, rs, Refreshed(rs, tabs))
        /\ UNCHANGED attempts

\* SetTabAudioMuted
SetTabAudioMuted(c) ==
    LET i == intents[c]
    IN  /\ i.kind = "mute" /\ i.status = "open"
        /\ Mutable(i)
        /\ CommittedBy(c, roles, [tabs EXCEPT ![i.tab].muted = ~i.was])
        /\ UNCHANGED <<next_owner_generation, attempts, owners>>

\* A takeover or a mute whose command fails
Refused(c) ==
    LET i == intents[c]
    IN  /\ i.status = "open"
        /\ i.kind = "claim" => ~Claimable(i)
        /\ i.kind = "mute" => ~Mutable(i)
        /\ intents' = [intents EXCEPT ![c].status = "refused"]
        /\ UNCHANGED <<next_owner_generation, roles, tabs, attempts, owners>>

Next ==
    \/ \E t \in TabIds, s \in Sources, w \in Windows : CreateTab(t, s, w)
    \/ \E T \in SUBSET DOMAIN tabs : T # {} /\ CloseTabs(T)
    \/ \E r \in Roles, to \in {"launching", "running", "stopping"} : AdvanceRole(r, to)
    \/ \E r \in Roles, t \in TabIds : AdmitRole(r, t)
    \/ \E r \in Roles : ReleaseRole(r)
    \/ \E t \in TabIds, w \in Windows : MoveTab(t, w)
    \/ \E c \in Callers, r \in Roles, t \in TabIds : PlanClaim(c, r, t)
    \/ \E c \in Callers, t \in TabIds : PlanMute(c, t)
    \/ \E c \in Callers : ClaimRoleSlot(c) \/ SetTabAudioMuted(c) \/ Refused(c)

Spec == Init /\ [][Next]_vars

-----------------------------------------------------------------------------
Lifecycle == {"launching", "running", "stopping"}

SlotType == [state : Lifecycle \cup {"available", "blocked"}, generation : 0..MaxGeneration]

\* Every component has its type, and every owner is one of those created.
TypeOK ==
    /\ next_owner_generation \in 0..MaxGeneration
    /\ DOMAIN roles \subseteq Roles
    /\ \A r \in DOMAIN roles :
          /\ roles[r] \in [tab : TabIds, generation : 1..MaxGeneration, state : Lifecycle]
          /\ <<roles[r].generation, r, roles[r].tab>> \in owners
    /\ DOMAIN tabs \subseteq TabIds
    /\ \A t \in DOMAIN tabs :
          /\ tabs[t].source \in Sources /\ tabs[t].window \in Windows
          /\ tabs[t].attempt \in 1..attempts /\ tabs[t].muted \in BOOLEAN
          /\ tabs[t].slots \in [SlotsOf[tabs[t].source] -> SlotType]
    /\ attempts \in 0..MaxAttempts
    /\ \A c \in Callers : intents[c].status \in {None, "open", "applied", "refused"}

\* validate: every owner has its tab and a slot there, after whatever sequence
\* of launches, takeovers, releases and closed windows.
OwnersHaveSlots ==
    \A r \in DOMAIN roles :
        roles[r].tab \in DOMAIN tabs /\ r \in DOMAIN tabs[roles[r].tab].slots

\* refresh_slot_states: the windows are drawn from the slots, so that the slots
\* of all tabs agree on who has a role: the owning slot shows its state, every
\* other slot of the role is blocked by that same owner, and the slots of a
\* role without an owner are available.
SlotsFollowOwners ==
    \A t \in DOMAIN tabs : \A r \in DOMAIN tabs[t].slots :
        tabs[t].slots[r] = SlotState(roles, t, r)

\* Owners and slots never tell two stories about a role, in either direction.
OwnersAndSlotsAgree == OwnersHaveSlots /\ SlotsFollowOwners

\* next_owner: a generation stands for one owner for good, of any role: what
\* is fenced by one (takeovers, mutes, native surfaces) cannot meet another.
GenerationsNeverReused ==
    \A o, p \in owners : o[1] = p[1] => o = p

\* claim_role_slot, set_tab_audio_muted: what is applied was decided on owners
\* that have not changed since, not even away and back.  (A takeover of a role
\* that had no owner is only known to find none.)
StaleIntentsAreRefused ==
    \A c \in Callers :
        /\ intents[c].status = "applied"
        /\ intents[c].kind = "claim" => intents[c].expected # 0
        => ~intents[c].outrun

\* transition_role, claim_role_slot: an owner only goes forward, from launching
\* to running to stopping; a role starts again only under a later generation.
Rank == [launching |-> 1, running |-> 2, stopping |-> 3]

OwnersGoForward ==
    [][\A r \in DOMAIN roles \cap DOMAIN roles' :
         \/ roles'[r].generation > roles[r].generation
         \/ /\ roles'[r].generation = roles[r].generation
            /\ roles'[r].tab = roles[r].tab
            /\ Rank[roles'[r].state] >= Rank[roles[r].state]]_vars
=============================================================================
