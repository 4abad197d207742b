------------------------- MODULE RoleOwnershipProofs -------------------------
(***************************************************************************)
(* Safety of RoleOwnership, for any roles, sources, tabs and bounds: every *)
(* owner has its slot, the slots of a role agree, a generation stands for  *)
(* one owner, an owner only goes forward, and nothing is applied that was  *)
(* decided on owners that have changed since.                              *)
(***************************************************************************)
EXTENDS RoleOwnership, TLAPS

RoleRecord == [tab : TabIds, generation : Nat, state : Lifecycle]

SlotRecord == [state : Lifecycle \cup {"available", "blocked"}, generation : Nat]

Slots == UNION {[S -> SlotRecord] : S \in SUBSET Roles}

TabRecord == [source : Sources, attempt : Nat, window : Windows, muted : BOOLEAN, slots : Slots]

\* The types the proof rests on; the intents have none, so that a command is
\* safe whatever its caller sends.
RolesTyped(rs) == \A r \in DOMAIN rs : r \in Roles /\ rs[r] \in RoleRecord
TabsTyped(ts) == \A t \in DOMAIN ts : t \in TabIds /\ ts[t] \in TabRecord

\* Every owner of rs has its slot in ts.
Housed(rs, ts) ==
    \A r \in DOMAIN rs : rs[r].tab \in DOMAIN ts /\ r \in DOMAIN ts[rs[r].tab].slots

Placed == RolesTyped(roles) /\ TabsTyped(tabs) /\ attempts \in Nat /\ OwnersHaveSlots /\ SlotsFollowOwners

\* The owners are among those created, none of which is later than the counter.
Counted ==
    /\ next_owner_generation \in Nat
    /\ owners \subseteq Nat \X Roles \X TabIds
    /\ \A o \in owners : o[1] <= next_owner_generation
    /\ \A r \in DOMAIN roles : <<roles[r].generation, r, roles[r].tab>> \in owners
    /\ GenerationsNeverReused

Inv == Placed /\ Counted

-----------------------------------------------------------------------------
\* What a slot shows is a slot record.
LEMMA SlotStateTyped ==
    ASSUME NEW rs, RolesTyped(rs), NEW t, NEW r
    PROVE  SlotState(rs, t, r) \in SlotRecord
  BY DEF SlotState, RolesTyped, RoleRecord, SlotRecord, Lifecycle

\* Bringing the slots up to date changes nothing else of a tab.
LEMMA RefreshedTabs ==
    ASSUME NEW rs, RolesTyped(rs), NEW ts, TabsTyped(ts)
    PROVE  /\ DOMAIN Refreshed(rs, ts) = DOMAIN ts
           /\ TabsTyped(Refreshed(rs, ts))
           /\ \A t \in DOMAIN ts :
                 /\ DOMAIN Refreshed(rs, ts)[t].slots = DOMAIN ts[t].slots
                 /\ \A r \in DOMAIN ts[t].slots :
                       Refreshed(rs, ts)[t].slots[r] = SlotState(rs, t, r)
  <1>1. DOMAIN Refreshed(rs, ts) = DOMAIN ts
    BY DEF Refreshed
  <1>2. ASSUME NEW t \in DOMAIN ts
        PROVE  /\ t \in TabIds
               /\ Refreshed(rs, ts)[t] \in TabRecord
               /\ Refreshed(rs, ts)[t].slots = [r \in DOMAIN ts[t].slots |-> SlotState(rs, t, r)]
    <2> DEFINE slots == [r \in DOMAIN ts[t].slots |-> SlotState(rs, t, r)]
    <2>1. t \in TabIds /\ ts[t] \in TabRecord
      BY DEF TabsTyped
    <2>2. Refreshed(rs, ts)[t] = [ts[t] EXCEPT !.slots = slots]
      BY DEF Refreshed
    <2>3. DOMAIN ts[t].slots \in SUBSET Roles
      BY <2>1 DEF TabRecord, Slots
    <2>4. slots \in Slots
      BY <2>3, SlotStateTyped DEF Slots
    <2> HIDE DEF slots
    <2>5. [ts[t] EXCEPT !.slots = slots] \in TabRecord
      BY <2>1, <2>4 DEF TabRecord
    <2>6. [ts[t] EXCEPT !.slots = slots].slots = slots
      BY <2>1 DEF TabRecord
    <2> QED
      BY <2>1, <2>2, <2>5, <2>6 DEF slots
  <1> QED
    BY <1>1, <1>2 DEF TabsTyped

\* A command that leaves well-typed owners in tabs that have slots for them,
\* and brings the slots up to date.
LEMMA UpdateKeepsPlaced ==
    ASSUME NEW rs, RolesTyped(rs), NEW ts, TabsTyped(ts), Housed(rs, ts),
           roles' = rs, tabs' = Refreshed(rs, ts), attempts' \in Nat
    PROVE  Placed'
  <1>1. RolesTyped(roles') /\ TabsTyped(tabs')
    BY RefreshedTabs
  <1>2. OwnersHaveSlots'
    BY RefreshedTabs DEF OwnersHaveSlots, Housed
  <1>3. SlotsFollowOwners'
    BY RefreshedTabs DEF SlotsFollowOwners, SlotState
  <1> QED
    BY <1>1, <1>2, <1>3 DEF Placed, RolesTyped, TabsTyped

\* A command that creates no owner.
LEMMA NoOwnerKeepsCounted ==
    ASSUME Counted, DOMAIN roles' \subseteq DOMAIN roles,
           \A r \in DOMAIN roles' : roles'[r].tab = roles[r].tab
                                    /\ roles'[r].generation = roles[r].generation,
           UNCHANGED <<next_owner_generation, owners>>
    PROVE  Counted'
  BY DEF Counted, GenerationsNeverReused

\* A command that makes tab t the new owner of role r.
LEMMA NewOwnerKeepsCounted ==
    ASSUME Counted, NEW r \in Roles, NEW t \in TabIds, NewOwner(r, t), NEW st,
           roles' = Put(roles, r, [tab |-> t, generation |-> NextGeneration(r), state |-> st])
    PROVE  Counted'
  <1> DEFINE new == <<next_owner_generation + 1, r, t>>
  <1>1. /\ next_owner_generation' = next_owner_generation + 1
        /\ owners' = owners \cup {new}
    BY DEF NewOwner, NextGeneration
  <1>2. new \in Nat \X Roles \X TabIds /\ new[1] = next_owner_generation + 1
    BY DEF Counted
  <1>3. /\ next_owner_generation' \in Nat
        /\ owners' \subseteq Nat \X Roles \X TabIds
        /\ \A o \in owners' : o[1] <= next_owner_generation'
    <2>1. \A o \in owners : o[1] \in Nat
      BY DEF Counted
    <2> HIDE DEF new
    <2> QED
      BY <1>1, <1>2, <2>1 DEF Counted
  <1>4. \A q \in DOMAIN roles' : <<roles'[q].generation, q, roles'[q].tab>> \in owners'
    <2> SUFFICES ASSUME NEW q \in DOMAIN roles'
                 PROVE  <<roles'[q].generation, q, roles'[q].tab>> \in owners'
      OBVIOUS
    <2>1. CASE q = r
      BY <1>1, <2>1 DEF Put, NextGeneration
    <2>2. CASE q # r
      BY <1>1, <2>2 DEF Put, Counted
    <2> QED
      BY <2>1, <2>2
  <1>5. GenerationsNeverReused'
    <2>1. \A o \in owners : o[1] # new[1]
      <3>1. \A o \in owners : o[1] \in Nat /\ o[1] <= next_owner_generation
        BY DEF Counted
      <3> QED
        BY <1>2, <3>1 DEF Counted
    <2> HIDE DEF new
    <2> QED
      BY <1>1, <2>1 DEF GenerationsNeverReused, Counted
  <1> QED
    BY <1>3, <1>4, <1>5 DEF Counted
-----------------------------------------------------------------------------
LEMMA InitInv == Init => Inv
  BY DEF Init, Inv, Placed, Counted, RolesTyped, TabsTyped, OwnersHaveSlots,
         SlotsFollowOwners, GenerationsNeverReused

\* Facts about the state before a step, that the cases below share.
LEMMA InvFacts ==
    ASSUME Inv
    PROVE  /\ RolesTyped(roles)
           /\ TabsTyped(tabs)
           /\ Housed(roles, tabs)
           /\ attempts \in Nat
           /\ \A t \in DOMAIN tabs : t \in TabIds /\ tabs[t] \in TabRecord /\ DOMAIN tabs[t].slots \subseteq Roles
  <1>1. \A t \in DOMAIN tabs : tabs[t] \in TabRecord
    BY DEF Inv, Placed, TabsTyped
  <1>2. \A t \in DOMAIN tabs : DOMAIN tabs[t].slots \subseteq Roles
    BY <1>1 DEF TabRecord, Slots
  <1> QED
    BY <1>1, <1>2 DEF Inv, Placed, Housed, OwnersHaveSlots, TabsTyped

LEMMA CreateTabKeepsInv ==
    ASSUME Inv, NEW t \in TabIds, NEW s \in Sources, NEW w \in Windows, CreateTab(t, s, w)
    PROVE  Inv'
  <1> DEFINE empty == [r \in SlotsOf[s] |-> [state |-> "available", generation |-> 0]]
             tab == [source |-> s, attempt |-> attempts + 1, window |-> w,
                     muted |-> FALSE, slots |-> empty]
             ts == Put(tabs, t, tab)
  <1>1. empty \in Slots
    <2>1. SlotsOf[s] \in SUBSET Roles
      BY SlotsAssumption
    <2>2. [state |-> "available", generation |-> 0] \in SlotRecord
      BY DEF SlotRecord
    <2> QED
      BY <2>1, <2>2 DEF Slots
  <1>2. tab \in TabRecord
    <2> HIDE DEF empty
    <2> QED
      BY <1>1, InvFacts DEF TabRecord
  <1>3. /\ roles' = roles /\ tabs' = Refreshed(roles, ts)
        /\ attempts' = attempts + 1
        /\ UNCHANGED <<next_owner_generation, owners>>
        /\ t \notin DOMAIN tabs
    BY DEF CreateTab, Updates, Leaves
  <1> HIDE DEF tab
  <1>4. DOMAIN ts = DOMAIN tabs \cup {t} /\ \A u \in DOMAIN tabs : ts[u] = tabs[u]
    BY <1>3 DEF Put
  <1>5. ts[t] = tab
    BY DEF Put
  <1> HIDE DEF ts
  <1>6. TabsTyped(ts)
    BY <1>2, <1>4, <1>5, InvFacts DEF TabsTyped
  <1>7. Housed(roles, ts)
    BY <1>4, InvFacts DEF Housed
  <1>8. Placed'
    BY <1>3, <1>6, <1>7, InvFacts, UpdateKeepsPlaced
  <1>9. Counted'
    BY <1>3, NoOwnerKeepsCounted DEF Inv
  <1> QED
    BY <1>8, <1>9 DEF Inv

LEMMA CloseTabsKeepsInv ==
    ASSUME Inv, NEW T \in SUBSET DOMAIN tabs, CloseTabs(T)
    PROVE  Inv'
  <1> DEFINE rs == OwnersOutside(T)
             ts == Without(tabs, T)
  <1>1. roles' = rs /\ tabs' = Refreshed(rs, ts) /\ UNCHANGED <<next_owner_generation, attempts, owners>>
    BY DEF CloseTabs, Updates, Leaves
  <1>2. /\ DOMAIN rs = {q \in DOMAIN roles : roles[q].tab \notin T}
        /\ \A r \in DOMAIN rs : rs[r] = roles[r]
    BY DEF OwnersOutside
  <1>3. DOMAIN ts = DOMAIN tabs \ T /\ \A t \in DOMAIN ts : ts[t] = tabs[t]
    BY DEF Without
  <1> HIDE DEF rs, ts
  <1>4. RolesTyped(rs) /\ TabsTyped(ts) /\ Housed(rs, ts)
    BY <1>2, <1>3, InvFacts DEF RolesTyped, TabsTyped, Housed
  <1>5. Placed'
    BY <1>1, <1>4, InvFacts, UpdateKeepsPlaced
  <1>6. Counted'
    BY <1>1, <1>2, NoOwnerKeepsCounted DEF Inv
  <1> QED
    BY <1>5, <1>6 DEF Inv

LEMMA AdvanceRoleKeepsInv ==
    ASSUME Inv, NEW r \in Roles, NEW to \in Lifecycle, AdvanceRole(r, to)
    PROVE  Inv'
  <1> DEFINE rs == [roles EXCEPT ![r].state = to]
  <1>1. /\ roles' = rs /\ tabs' = Refreshed(rs, tabs) /\ r \in DOMAIN roles
        /\ UNCHANGED <<next_owner_generation, attempts, owners>>
    BY DEF AdvanceRole, Updates, Leaves
  <1>2. roles[r] \in RoleRecord
    BY <1>1, InvFacts DEF RolesTyped
  <1>3. rs = [roles EXCEPT ![r] = [roles[r] EXCEPT !.state = to]]
    OBVIOUS
  <1>4. /\ [roles[r] EXCEPT !.state = to] \in RoleRecord
        /\ [roles[r] EXCEPT !.state = to].tab = roles[r].tab
        /\ [roles[r] EXCEPT !.state = to].generation = roles[r].generation
    BY <1>2 DEF RoleRecord
  <1>5. /\ DOMAIN rs = DOMAIN roles
        /\ rs[r] = [roles[r] EXCEPT !.state = to]
        /\ \A q \in DOMAIN roles : q # r => rs[q] = roles[q]
    BY <1>1, <1>3
  <1> HIDE DEF rs
  <1>6. \A q \in DOMAIN roles : rs[q].tab = roles[q].tab /\ rs[q].generation = roles[q].generation
    BY <1>4, <1>5
  <1>7. RolesTyped(rs)
    BY <1>4, <1>5, InvFacts DEF RolesTyped
  <1>8. Housed(rs, tabs)
    BY <1>5, <1>6, InvFacts DEF Housed
  <1>9. Placed'
    BY <1>1, <1>7, <1>8, InvFacts, UpdateKeepsPlaced
  <1>10. Counted'
    BY <1>1, <1>5, <1>6, NoOwnerKeepsCounted DEF Inv
  <1> QED
    BY <1>9, <1>10 DEF Inv

\* The slot of role r in tab t becomes its owner: AdmitRole and ClaimRoleSlot.
LEMMA OwningKeepsInv ==
    ASSUME Inv, NEW t \in DOMAIN tabs, NEW r \in DOMAIN tabs[t].slots, NewOwner(r, t),
           NEW rs, rs = Put(roles, r, [tab |-> t, generation |-> NextGeneration(r),
                                       state |-> "launching"]),
           roles' = rs, tabs' = Refreshed(rs, tabs), UNCHANGED attempts
    PROVE  Inv'
  <1> DEFINE owner == [tab |-> t, generation |-> NextGeneration(r), state |-> "launching"]
  <1>1. r \in Roles /\ t \in TabIds
    BY InvFacts
  <1>2. owner \in RoleRecord /\ owner.tab = t
    BY <1>1 DEF Inv, Counted, NextGeneration, RoleRecord, Lifecycle
  <1> HIDE DEF owner
  <1>3. /\ DOMAIN rs = DOMAIN roles \cup {r}
        /\ rs[r] = owner
        /\ \A q \in DOMAIN roles : q # r => rs[q] = roles[q]
    BY DEF Put, owner
  <1>4. RolesTyped(rs)
    BY <1>1, <1>2, <1>3, InvFacts DEF RolesTyped
  <1>5. Housed(rs, tabs)
    BY <1>2, <1>3, InvFacts DEF Housed
  <1>6. Placed'
    BY <1>4, <1>5, InvFacts, UpdateKeepsPlaced
  <1>7. Counted'
    BY <1>1, NewOwnerKeepsCounted DEF Inv
  <1> QED
    BY <1>6, <1>7 DEF Inv

LEMMA ReleaseRoleKeepsInv ==
    ASSUME Inv, NEW r \in Roles, ReleaseRole(r)
    PROVE  Inv'
  <1> DEFINE rs == Without(roles, {r})
  <1>1. roles' = rs /\ tabs' = Refreshed(rs, tabs) /\ UNCHANGED <<next_owner_generation, attempts, owners>>
    BY DEF ReleaseRole, Updates, Leaves
  <1>2. DOMAIN rs = DOMAIN roles \ {r} /\ \A q \in DOMAIN rs : rs[q] = roles[q]
    BY DEF Without
  <1> HIDE DEF rs
  <1>3. RolesTyped(rs) /\ Housed(rs, tabs)
    BY <1>2, InvFacts DEF RolesTyped, Housed
  <1>4. Placed'
    BY <1>1, <1>3, InvFacts, UpdateKeepsPlaced
  <1>5. Counted'
    BY <1>1, <1>2, NoOwnerKeepsCounted DEF Inv
  <1> QED
    BY <1>4, <1>5 DEF Inv

\* A command that changes a field of tab t other than its slots.
LEMMA TabFieldKeepsInv ==
    ASSUME Inv, NEW t \in DOMAIN tabs, NEW tab \in TabRecord, tab.slots = tabs[t].slots,
           tabs' = [tabs EXCEPT ![t] = tab],
           UNCHANGED <<roles, next_owner_generation, attempts, owners>>
    PROVE  Inv'
  <1>1. /\ DOMAIN tabs' = DOMAIN tabs
        /\ tabs'[t] = tab
        /\ \A u \in DOMAIN tabs : u # t => tabs'[u] = tabs[u]
    OBVIOUS
  <1>2. \A u \in DOMAIN tabs : tabs'[u].slots = tabs[u].slots
    BY <1>1
  <1>3. RolesTyped(roles') /\ TabsTyped(tabs') /\ attempts' \in Nat
    BY <1>1, InvFacts DEF TabsTyped
  <1>4. OwnersHaveSlots'
    BY <1>1, <1>2 DEF Inv, Placed, OwnersHaveSlots
  <1>5. SlotsFollowOwners'
    BY <1>1, <1>2 DEF Inv, Placed, SlotsFollowOwners, SlotState
  <1>6. Placed'
    BY <1>3, <1>4, <1>5 DEF Placed, RolesTyped, TabsTyped
  <1>7. Counted'
    BY DEF Inv, Counted, GenerationsNeverReused
  <1> QED
    BY <1>6, <1>7 DEF Inv

LEMMA MoveTabKeepsInv ==
    ASSUME Inv, NEW t \in TabIds, NEW w \in Windows, MoveTab(t, w)
    PROVE  Inv'
  <1>1. /\ t \in DOMAIN tabs
        /\ tabs' = [tabs EXCEPT ![t] = [tabs[t] EXCEPT !.window = w]]
        /\ UNCHANGED <<roles, next_owner_generation, attempts, owners>>
    BY DEF MoveTab, Leaves
  <1>2. /\ [tabs[t] EXCEPT !.window = w] \in TabRecord
        /\ [tabs[t] EXCEPT !.window = w].slots = tabs[t].slots
    BY <1>1, InvFacts DEF TabRecord
  <1> QED
    BY <1>1, <1>2, TabFieldKeepsInv

LEMMA SetTabAudioMutedKeepsInv ==
    ASSUME Inv, NEW c \in Callers, SetTabAudioMuted(c)
    PROVE  Inv'
  <1> DEFINE t == intents[c].tab
             muted == ~intents[c].was
  <1>1. /\ t \in DOMAIN tabs
        /\ tabs' = [tabs EXCEPT ![t] = [tabs[t] EXCEPT !.muted = muted]]
        /\ UNCHANGED <<roles, next_owner_generation, attempts, owners>>
    BY DEF SetTabAudioMuted, CommittedBy, Mutable, MutableOnceOwned
  <1>2. muted \in BOOLEAN
    OBVIOUS
  <1> HIDE DEF t, muted
  <1>3. /\ [tabs[t] EXCEPT !.muted = muted] \in TabRecord
        /\ [tabs[t] EXCEPT !.muted = muted].slots = tabs[t].slots
    BY <1>1, <1>2, InvFacts DEF TabRecord
  <1> QED
    BY <1>1, <1>3, TabFieldKeepsInv

LEMMA ClaimRoleSlotKeepsInv ==
    ASSUME Inv, NEW c \in Callers, ClaimRoleSlot(c)
    PROVE  Inv'
  <1> DEFINE r == intents[c].role
             t == intents[c].tab
             rs == Put(roles, r, [tab |-> t, generation |-> NextGeneration(r), state |-> "launching"])
  <1>1. /\ t \in DOMAIN tabs /\ r \in DOMAIN tabs[t].slots
        /\ NewOwner(r, t)
        /\ roles' = rs /\ tabs' = Refreshed(rs, tabs) /\ UNCHANGED attempts
    BY DEF ClaimRoleSlot, CommittedBy, Claimable
  <1> HIDE DEF r, t
  <1> QED
    BY <1>1, OwningKeepsInv

LEMMA AdmitRoleKeepsInv ==
    ASSUME Inv, NEW r \in Roles, NEW t \in TabIds, AdmitRole(r, t)
    PROVE  Inv'
  <1> DEFINE rs == Put(roles, r, [tab |-> t, generation |-> NextGeneration(r), state |-> "launching"])
  <1>1. /\ t \in DOMAIN tabs /\ r \in DOMAIN tabs[t].slots
        /\ NewOwner(r, t)
        /\ roles' = rs /\ tabs' = Refreshed(rs, tabs) /\ UNCHANGED attempts
    BY DEF AdmitRole, Updates, Leaves
  <1> QED
    BY <1>1, OwningKeepsInv

\* A step that only plans or refuses.
LEMMA UnchangedKeepsInv ==
    ASSUME Inv, UNCHANGED <<next_owner_generation, roles, tabs, attempts, owners>>
    PROVE  Inv'
  BY DEF Inv, Placed, Counted, RolesTyped, TabsTyped, OwnersHaveSlots,
         SlotsFollowOwners, SlotState, GenerationsNeverReused

LEMMA NextKeepsInv == Inv /\ [Next]_vars => Inv'
  <1> SUFFICES ASSUME Inv, [Next]_vars PROVE Inv'
    OBVIOUS
  <1>1. ASSUME NEW t \in TabIds, NEW s \in Sources, NEW w \in Windows, CreateTab(t, s, w) PROVE Inv'
    BY <1>1, CreateTabKeepsInv
  <1>2. ASSUME NEW T \in SUBSET DOMAIN tabs, CloseTabs(T) PROVE Inv'
    BY <1>2, CloseTabsKeepsInv
  <1>3. ASSUME NEW r \in Roles, NEW to \in Lifecycle, AdvanceRole(r, to) PROVE Inv'
    BY <1>3, AdvanceRoleKeepsInv
  <1>4. ASSUME NEW r \in Roles, NEW t \in TabIds, AdmitRole(r, t) PROVE Inv'
    BY <1>4, AdmitRoleKeepsInv
  <1>5. ASSUME NEW r \in Roles, ReleaseRole(r) PROVE Inv'
    BY <1>5, ReleaseRoleKeepsInv
  <1>6. ASSUME NEW t \in TabIds, NEW w \in Windows, MoveTab(t, w) PROVE Inv'
    BY <1>6, MoveTabKeepsInv
  <1>7. ASSUME NEW c \in Callers, ClaimRoleSlot(c) PROVE Inv'
    BY <1>7, ClaimRoleSlotKeepsInv
  <1>8. ASSUME NEW c \in Callers, SetTabAudioMuted(c) PROVE Inv'
    BY <1>8, SetTabAudioMutedKeepsInv
  <1>9. ASSUME NEW c \in Callers, Refused(c) PROVE Inv'
    BY <1>9, UnchangedKeepsInv DEF Refused
  <1>10. ASSUME NEW c \in Callers, NEW r \in Roles, NEW t \in TabIds, PlanClaim(c, r, t) PROVE Inv'
    BY <1>10, UnchangedKeepsInv DEF PlanClaim
  <1>11. ASSUME NEW c \in Callers, NEW t \in TabIds, PlanMute(c, t) PROVE Inv'
    BY <1>11, UnchangedKeepsInv DEF PlanMute
  <1>12. CASE UNCHANGED vars
    BY <1>12, UnchangedKeepsInv DEF vars
  <1> QED
    BY <1>1, <1>2, <1>3, <1>4, <1>5, <1>6, <1>7, <1>8, <1>9, <1>10, <1>11, <1>12
       DEF Next, Lifecycle

THEOREM InvHolds == Spec => []Inv
  BY InitInv, NextKeepsInv, PTL DEF Spec

\* validate can not fail: every owner has its tab, and a slot there; and the slots
\* of a role in all tabs always agree on its owner and its state.
THEOREM OwnersAndSlotsAlwaysAgree == Spec => []OwnersAndSlotsAgree
  <1>1. Inv => OwnersAndSlotsAgree
    BY DEF Inv, Placed, OwnersAndSlotsAgree
  <1> QED
    BY <1>1, InvHolds, PTL

\* next_owner: no generation is ever given to a second owner.
THEOREM GenerationsAreUnique == Spec => []GenerationsNeverReused
  <1>1. Inv => GenerationsNeverReused
    BY DEF Inv, Counted
  <1> QED
    BY <1>1, InvHolds, PTL

-----------------------------------------------------------------------------
\* From rs to qs an owner of role r is followed by a later one, or goes forward.
Forward(rs, qs, r) ==
    \/ qs[r].generation > rs[r].generation
    \/ /\ qs[r].generation = rs[r].generation
       /\ qs[r].tab = rs[r].tab
       /\ Rank[qs[r].state] >= Rank[rs[r].state]

\* An owner that a command does not touch stays as it is.
LEMMA SameIsForward ==
    ASSUME Inv, NEW r \in DOMAIN roles, roles'[r] = roles[r]
    PROVE  Forward(roles, roles', r)
  <1>1. roles[r].state \in Lifecycle
    BY InvFacts DEF RolesTyped, RoleRecord
  <1>2. Rank[roles[r].state] \in Nat
    BY <1>1 DEF Rank, Lifecycle
  <1> QED
    BY <1>2 DEF Forward

\* AdmitRole and ClaimRoleSlot: the new owner is later than the one it follows.
LEMMA OwningIsForward ==
    ASSUME Inv, NEW t, NEW r, NEW q \in DOMAIN roles,
           roles' = Put(roles, r, [tab |-> t, generation |-> NextGeneration(r), state |-> "launching"])
    PROVE  Forward(roles, roles', q)
  <1>1. CASE q = r
    <2>1. roles[q].generation \in Nat
      BY InvFacts DEF RolesTyped, RoleRecord
    <2>2. roles[q].generation <= next_owner_generation
      BY DEF Inv, Counted
    <2>3. roles'[q].generation = next_owner_generation + 1
      BY <1>1 DEF Put, NextGeneration
    <2> QED
      BY <2>1, <2>2, <2>3 DEF Forward, Inv, Counted
  <1>2. CASE q # r
    BY <1>2, SameIsForward DEF Put
  <1> QED
    BY <1>1, <1>2

\* RoleTransition: valid_transition only goes up.
LEMMA AdvanceIsForward ==
    ASSUME Inv, NEW r \in Roles, NEW to \in Lifecycle, AdvanceRole(r, to), NEW q \in DOMAIN roles
    PROVE  Forward(roles, roles', q)
  <1>1. roles' = [roles EXCEPT ![r] = [roles[r] EXCEPT !.state = to]] /\ ValidTransition(roles[r].state, to)
    BY DEF AdvanceRole, Updates, Leaves
  <1>2. roles[q] \in RoleRecord
    BY InvFacts DEF RolesTyped
  <1>3. CASE q = r
    <2>1. roles'[q] = [roles[q] EXCEPT !.state = to]
      BY <1>1, <1>3
    <2>2. roles'[q].generation = roles[q].generation /\ roles'[q].tab = roles[q].tab /\ roles'[q].state = to
      BY <1>2, <2>1 DEF RoleRecord
    <2>3. Rank[to] >= Rank[roles[q].state]
      <3> DEFINE from == roles[q].state
      <3>1. from \in Lifecycle /\ ValidTransition(from, to)
        BY <1>1, <1>2, <1>3 DEF RoleRecord
      <3> HIDE DEF from
      <3>2. Rank[to] >= Rank[from]
        BY <3>1 DEF ValidTransition, Rank, Lifecycle, None
      <3> QED
        BY <3>2 DEF from
    <2> QED
      BY <2>2, <2>3 DEF Forward
  <1>4. CASE q # r
    BY <1>1, <1>4, SameIsForward
  <1> QED
    BY <1>3, <1>4

LEMMA NextIsForward ==
    ASSUME Inv, [Next]_vars, NEW q \in DOMAIN roles, q \in DOMAIN roles'
    PROVE  Forward(roles, roles', q)
  <1>1. ASSUME roles' = roles PROVE Forward(roles, roles', q)
    BY <1>1, SameIsForward
  <1>2. ASSUME NEW t \in TabIds, NEW s \in Sources, NEW w \in Windows, CreateTab(t, s, w)
        PROVE  roles' = roles
    BY <1>2 DEF CreateTab, Updates, Leaves
  <1>3. ASSUME NEW T \in SUBSET DOMAIN tabs, CloseTabs(T) PROVE roles'[q] = roles[q]
    BY <1>3 DEF CloseTabs, Updates, Leaves, OwnersOutside
  <1>4. ASSUME NEW r \in Roles, NEW t \in TabIds, AdmitRole(r, t) PROVE Forward(roles, roles', q)
    BY <1>4, OwningIsForward DEF AdmitRole, Updates, Leaves
  <1>5. ASSUME NEW r \in Roles, ReleaseRole(r) PROVE roles'[q] = roles[q]
    BY <1>5 DEF ReleaseRole, Updates, Leaves, Without
  <1>6. ASSUME NEW t \in TabIds, NEW w \in Windows, MoveTab(t, w) PROVE roles' = roles
    BY <1>6 DEF MoveTab, Leaves
  <1>7. ASSUME NEW c \in Callers, ClaimRoleSlot(c) PROVE Forward(roles, roles', q)
    BY <1>7, OwningIsForward DEF ClaimRoleSlot, CommittedBy
  <1>8. ASSUME NEW c \in Callers, SetTabAudioMuted(c) PROVE roles' = roles
    BY <1>8 DEF SetTabAudioMuted, CommittedBy
  <1>9. ASSUME NEW c \in Callers, Refused(c) PROVE roles' = roles
    BY <1>9 DEF Refused
  <1>10. ASSUME NEW c \in Callers, NEW r \in Roles, NEW t \in TabIds, PlanClaim(c, r, t) PROVE roles' = roles
    BY <1>10 DEF PlanClaim
  <1>11. ASSUME NEW c \in Callers, NEW t \in TabIds, PlanMute(c, t) PROVE roles' = roles
    BY <1>11 DEF PlanMute
  <1>12. CASE UNCHANGED vars
    BY <1>1, <1>12 DEF vars
  <1> QED
    BY <1>1, <1>2, <1>3, <1>4, <1>5, <1>6, <1>7, <1>8, <1>9, <1>10, <1>11, <1>12,
       SameIsForward, AdvanceIsForward DEF Next, Lifecycle

\* transition_role, claim_role_slot: an owner only goes from launching to running
\* to stopping, and a role starts again only under a later generation.
THEOREM OwnersOnlyGoForward == Spec => OwnersGoForward
  <1>1. Inv /\ [Next]_vars =>
            [\A r \in DOMAIN roles \cap DOMAIN roles' :
               \/ roles'[r].generation > roles[r].generation
               \/ /\ roles'[r].generation = roles[r].generation
                  /\ roles'[r].tab = roles[r].tab
                  /\ Rank[roles'[r].state] >= Rank[roles[r].state]]_vars
    BY NextIsForward DEF Forward
  <1> QED
    BY <1>1, InvHolds, PTL DEF Spec, OwnersGoForward

-----------------------------------------------------------------------------
\* The intents, now with their types: what a caller has in hand.
Statuses == {"open", "applied", "refused"}

ClaimIntent == [kind : {"claim"}, role : Roles, tab : TabIds, expected : Nat,
                status : Statuses, outrun : BOOLEAN]

MuteIntent == [kind : {"mute"}, tab : TabIds, window : Windows, attempt : Nat, was : BOOLEAN,
               fences : SUBSET (Roles \X Nat), status : Statuses, outrun : BOOLEAN]

NoIntent == [kind |-> None, status |-> None]

Intent == {NoIntent} \cup ClaimIntent \cup MuteIntent

\* What intent i rests on is there in rs and ts: the owner that a takeover is to
\* replace; the launch and all the owners that a mute is for.
Rests(i, rs, ts) ==
    \/ i.kind = "claim" /\ i.role \in DOMAIN rs /\ rs[i.role].generation = i.expected
    \/ /\ i.kind = "mute"
       /\ i.tab \in DOMAIN ts /\ ts[i.tab].attempt = i.attempt
       /\ i.fences \subseteq Fences(rs, i.tab)

\* An intent that names what it rests on.
Fenced(i) == i.kind = "claim" => i.expected # 0

\* Generations and attempts that an intent names have been given out.
Given(i) ==
    /\ i.kind = "claim" => i.expected <= next_owner_generation
    /\ i.kind = "mute" => i.attempt <= attempts /\ \A f \in i.fences : f[2] <= next_owner_generation

\* An open intent was overtaken exactly when what it rests on is not there: what
\* is lost is lost for good, because the counters never give it out again.
Tracked(i) ==
    i.status = "open" /\ Fenced(i) => Given(i) /\ (i.outrun <=> ~Rests(i, roles, tabs))

NeverLate(i) == i.status = "applied" /\ Fenced(i) => ~i.outrun

IntentKept(i) == i \in Intent /\ Tracked(i) /\ NeverLate(i)

AttemptsCounted == \A t \in DOMAIN tabs : tabs[t].attempt <= attempts

IntentsKept ==
    /\ DOMAIN intents = Callers
    /\ \A c \in Callers : IntentKept(intents[c])
    /\ AttemptsCounted

\* What a step does to what intents rest on: an owner or a launch that is there
\* after it was there before, or has a number that was not given out yet.
Onward ==
    /\ next_owner_generation \in Nat /\ attempts \in Nat
    /\ next_owner_generation' \in Nat /\ next_owner_generation' >= next_owner_generation
    /\ attempts' \in Nat /\ attempts' >= attempts
    /\ \A r \in DOMAIN roles' :
          \/ /\ r \in DOMAIN roles
             /\ roles'[r].generation = roles[r].generation /\ roles'[r].tab = roles[r].tab
          \/ roles'[r].generation = next_owner_generation + 1
    /\ \A t \in DOMAIN tabs' :
          \/ t \in DOMAIN tabs /\ tabs'[t].attempt = tabs[t].attempt
          \/ tabs'[t].attempt = attempts + 1 /\ attempts' = attempts + 1

\* Bringing the slots up to date leaves a tab its launch attempt.
LEMMA RefreshedAttempt ==
    ASSUME NEW rs, NEW ts, TabsTyped(ts)
    PROVE  /\ DOMAIN Refreshed(rs, ts) = DOMAIN ts
           /\ \A t \in DOMAIN ts : Refreshed(rs, ts)[t].attempt = ts[t].attempt
  <1>1. ASSUME NEW t \in DOMAIN ts, NEW slots
        PROVE  [ts[t] EXCEPT !.slots = slots].attempt = ts[t].attempt
    BY DEF TabsTyped, TabRecord
  <1>2. \A t \in DOMAIN ts :
           Refreshed(rs, ts)[t] = [ts[t] EXCEPT !.slots = [r \in DOMAIN ts[t].slots |-> SlotState(rs, t, r)]]
    BY DEF Refreshed
  <1> QED
    BY <1>1, <1>2 DEF Refreshed

\* The steps that give the counters, the owners and the tabs no new value.
LEMMA StillIsOnward ==
    ASSUME Inv, UNCHANGED <<next_owner_generation, roles, tabs, attempts>>
    PROVE  Onward
  BY DEF Inv, Placed, Counted, Onward

\* The steps that create neither an owner nor a tab.
LEMMA SmallerIsOnward ==
    ASSUME Inv, UNCHANGED <<next_owner_generation, attempts>>,
           NEW ts, TabsTyped(ts), DOMAIN ts \subseteq DOMAIN tabs,
           \A t \in DOMAIN ts : ts[t].attempt = tabs[t].attempt,
           tabs' = Refreshed(roles', ts),
           \A r \in DOMAIN roles' : /\ r \in DOMAIN roles
                                    /\ roles'[r].generation = roles[r].generation
                                    /\ roles'[r].tab = roles[r].tab
    PROVE  Onward
  BY RefreshedAttempt DEF Inv, Placed, Counted, Onward

LEMMA CreateTabIsOnward ==
    ASSUME Inv, NEW t \in TabIds, NEW s \in Sources, NEW w \in Windows, CreateTab(t, s, w)
    PROVE  Onward
  <1> DEFINE empty == [r \in SlotsOf[s] |-> [state |-> "available", generation |-> 0]]
             tab == [source |-> s, attempt |-> attempts + 1, window |-> w,
                     muted |-> FALSE, slots |-> empty]
             ts == Put(tabs, t, tab)
  <1>1. empty \in Slots
    <2>1. SlotsOf[s] \in SUBSET Roles
      BY SlotsAssumption
    <2>2. [state |-> "available", generation |-> 0] \in SlotRecord
      BY DEF SlotRecord
    <2> QED
      BY <2>1, <2>2 DEF Slots
  <1>2. tab \in TabRecord /\ tab.attempt = attempts + 1
    <2> HIDE DEF empty
    <2> QED
      BY <1>1, InvFacts DEF TabRecord
  <1>3. /\ roles' = roles /\ tabs' = Refreshed(roles, ts)
        /\ attempts' = attempts + 1
        /\ UNCHANGED <<next_owner_generation, owners>>
        /\ t \notin DOMAIN tabs
    BY DEF CreateTab, Updates, Leaves
  <1> HIDE DEF tab
  <1>4. /\ DOMAIN ts = DOMAIN tabs \cup {t} /\ \A u \in DOMAIN tabs : ts[u] = tabs[u]
        /\ ts[t] = tab
    BY <1>3 DEF Put
  <1> HIDE DEF ts
  <1>5. TabsTyped(ts)
    BY <1>2, <1>4, InvFacts DEF TabsTyped
  <1>6. DOMAIN tabs' = DOMAIN ts /\ \A u \in DOMAIN ts : tabs'[u].attempt = ts[u].attempt
    BY <1>3, <1>5, RefreshedAttempt
  <1> QED
    BY <1>2, <1>3, <1>4, <1>6 DEF Inv, Placed, Counted, Onward

LEMMA CloseTabsIsOnward ==
    ASSUME Inv, NEW T \in SUBSET DOMAIN tabs, CloseTabs(T)
    PROVE  Onward
  <1> DEFINE ts == Without(tabs, T)
  <1>1. /\ roles' = OwnersOutside(T) /\ tabs' = Refreshed(roles', ts)
        /\ UNCHANGED <<next_owner_generation, attempts>>
    BY DEF CloseTabs, Updates, Leaves
  <1>2. DOMAIN ts = DOMAIN tabs \ T /\ \A t \in DOMAIN ts : ts[t] = tabs[t]
    BY DEF Without
  <1>3. \A r \in DOMAIN roles' : r \in DOMAIN roles /\ roles'[r] = roles[r]
    BY <1>1 DEF OwnersOutside
  <1> HIDE DEF ts
  <1>4. TabsTyped(ts)
    BY <1>2, InvFacts DEF TabsTyped
  <1> QED
    BY <1>1, <1>2, <1>3, <1>4, SmallerIsOnward

LEMMA AdvanceRoleIsOnward ==
    ASSUME Inv, NEW r \in Roles, NEW to \in Lifecycle, AdvanceRole(r, to)
    PROVE  Onward
  <1>1. /\ r \in DOMAIN roles
        /\ roles' = [roles EXCEPT ![r] = [roles[r] EXCEPT !.state = to]]
        /\ tabs' = Refreshed(roles', tabs)
        /\ UNCHANGED <<next_owner_generation, attempts>>
    BY DEF AdvanceRole, Updates, Leaves
  <1>2. /\ [roles[r] EXCEPT !.state = to].generation = roles[r].generation
        /\ [roles[r] EXCEPT !.state = to].tab = roles[r].tab
    BY <1>1, InvFacts DEF RolesTyped, RoleRecord
  <1>3. \A q \in DOMAIN roles' : /\ q \in DOMAIN roles
                                 /\ roles'[q].generation = roles[q].generation
                                 /\ roles'[q].tab = roles[q].tab
    BY <1>1, <1>2
  <1> QED
    BY <1>1, <1>3, InvFacts, SmallerIsOnward

\* AdmitRole and ClaimRoleSlot
LEMMA OwningIsOnward ==
    ASSUME Inv, NEW t, NEW r, NewOwner(r, t),
           roles' = Put(roles, r, [tab |-> t, generation |-> NextGeneration(r),
                                   state |-> "launching"]),
           tabs' = Refreshed(roles', tabs), UNCHANGED attempts
    PROVE  Onward
  <1>1. next_owner_generation' = next_owner_generation + 1
    BY DEF NewOwner, NextGeneration
  <1>2. \A q \in DOMAIN roles' :
           \/ q \in DOMAIN roles /\ roles'[q] = roles[q]
           \/ roles'[q].generation = next_owner_generation + 1
    BY DEF Put, NextGeneration
  <1>3. DOMAIN tabs' = DOMAIN tabs /\ \A u \in DOMAIN tabs : tabs'[u].attempt = tabs[u].attempt
    BY InvFacts, RefreshedAttempt
  <1> QED
    BY <1>1, <1>2, <1>3 DEF Inv, Placed, Counted, Onward

LEMMA ReleaseRoleIsOnward ==
    ASSUME Inv, NEW r \in Roles, ReleaseRole(r)
    PROVE  Onward
  <1>1. /\ roles' = Without(roles, {r}) /\ tabs' = Refreshed(roles', tabs)
        /\ UNCHANGED <<next_owner_generation, attempts>>
    BY DEF ReleaseRole, Updates, Leaves
  <1>2. \A q \in DOMAIN roles' : q \in DOMAIN roles /\ roles'[q] = roles[q]
    BY <1>1 DEF Without
  <1> QED
    BY <1>1, <1>2, InvFacts, SmallerIsOnward

\* A command that changes the window of tab t, or its sound.
LEMMA TabFieldIsOnward ==
    ASSUME Inv, NEW t \in DOMAIN tabs, NEW tab, tab.attempt = tabs[t].attempt,
           tabs' = [tabs EXCEPT ![t] = tab],
           UNCHANGED <<roles, next_owner_generation, attempts>>
    PROVE  Onward
  BY DEF Inv, Placed, Counted, Onward

LEMMA MoveTabIsOnward ==
    ASSUME Inv, NEW t \in TabIds, NEW w \in Windows, MoveTab(t, w)
    PROVE  Onward
  <1>1. /\ t \in DOMAIN tabs
        /\ tabs' = [tabs EXCEPT ![t] = [tabs[t] EXCEPT !.window = w]]
        /\ UNCHANGED <<roles, next_owner_generation, attempts>>
    BY DEF MoveTab, Leaves
  <1>2. [tabs[t] EXCEPT !.window = w].attempt = tabs[t].attempt
    BY <1>1, InvFacts DEF TabRecord
  <1> QED
    BY <1>1, <1>2, TabFieldIsOnward

LEMMA SetTabAudioMutedIsOnward ==
    ASSUME Inv, NEW c \in Callers, SetTabAudioMuted(c)
    PROVE  Onward
  <1> DEFINE t == intents[c].tab
             muted == ~intents[c].was
  <1>1. /\ t \in DOMAIN tabs
        /\ tabs' = [tabs EXCEPT ![t] = [tabs[t] EXCEPT !.muted = muted]]
        /\ UNCHANGED <<roles, next_owner_generation, attempts>>
    BY DEF SetTabAudioMuted, CommittedBy, Mutable, MutableOnceOwned
  <1> HIDE DEF t, muted
  <1>2. [tabs[t] EXCEPT !.muted = muted].attempt = tabs[t].attempt
    BY <1>1, InvFacts DEF TabRecord
  <1> QED
    BY <1>1, <1>2, TabFieldIsOnward

LEMMA ClaimRoleSlotIsOnward ==
    ASSUME Inv, NEW c \in Callers, ClaimRoleSlot(c)
    PROVE  Onward
  <1> DEFINE r == intents[c].role
             t == intents[c].tab
  <1>1. /\ NewOwner(r, t)
        /\ roles' = Put(roles, r, [tab |-> t, generation |-> NextGeneration(r), state |-> "launching"])
        /\ tabs' = Refreshed(roles', tabs) /\ UNCHANGED attempts
    BY DEF ClaimRoleSlot, CommittedBy
  <1> HIDE DEF r, t
  <1> QED
    BY <1>1, OwningIsOnward

LEMMA AdmitRoleIsOnward ==
    ASSUME Inv, NEW r \in Roles, NEW t \in TabIds, AdmitRole(r, t)
    PROVE  Onward
  BY OwningIsOnward DEF AdmitRole, Updates, Leaves

-----------------------------------------------------------------------------
\* What is lost to an intent is lost for good: the owner and the launch that it
\* names were given out before, and a step gives out only later ones.
LEMMA LostStaysLost ==
    ASSUME Onward, NEW i \in Intent, Fenced(i), Given(i), ~Rests(i, roles, tabs)
    PROVE  ~Rests(i, roles', tabs')
  <1>1. CASE i.kind = "claim"
    <2>1. i \in ClaimIntent
      BY <1>1 DEF Intent, NoIntent, MuteIntent, None
    <2>2. i.expected \in Nat /\ i.expected <= next_owner_generation
      BY <1>1, <2>1 DEF ClaimIntent, Given
    <2>3. ~(i.role \in DOMAIN roles /\ roles[i.role].generation = i.expected)
      BY <1>1 DEF Rests
    <2>4. ~(i.role \in DOMAIN roles' /\ roles'[i.role].generation = i.expected)
      BY <2>2, <2>3 DEF Onward
    <2> QED
      BY <1>1, <2>4 DEF Rests
  <1>2. CASE i.kind = "mute"
    <2>1. i \in MuteIntent
      BY <1>2 DEF Intent, NoIntent, ClaimIntent, None
    <2>2. /\ i.attempt \in Nat /\ i.attempt <= attempts
          /\ i.fences \subseteq Roles \X Nat /\ \A f \in i.fences : f[2] <= next_owner_generation
      BY <1>2, <2>1 DEF MuteIntent, Given
    <2>3. ASSUME i.tab \in DOMAIN tabs', tabs'[i.tab].attempt = i.attempt,
                 i.fences \subseteq Fences(roles', i.tab)
          PROVE  FALSE
      <3>1. i.tab \in DOMAIN tabs /\ tabs[i.tab].attempt = i.attempt
        BY <2>2, <2>3 DEF Onward
      <3>2. ASSUME NEW f \in i.fences PROVE f \in Fences(roles, i.tab)
        <4>1. PICK r \in DOMAIN roles' : roles'[r].tab = i.tab /\ f = <<r, roles'[r].generation>>
          BY <2>3, <3>2 DEF Fences
        <4>2. f[2] = roles'[r].generation /\ f[2] \in Nat /\ f[2] <= next_owner_generation
          BY <2>2, <3>2, <4>1
        <4>3. r \in DOMAIN roles /\ roles'[r].generation = roles[r].generation
              /\ roles'[r].tab = roles[r].tab
          BY <4>2 DEF Onward
        <4> QED
          BY <4>1, <4>3 DEF Fences
      <3> QED
        BY <1>2, <3>1, <3>2 DEF Rests
    <2> QED
      BY <1>2, <2>3 DEF Rests
  <1> QED
    BY <1>1, <1>2 DEF Rests

\* An intent whose ground is there is outdated by a step exactly when the step
\* takes that away.
LEMMA OutdatedIsLost ==
    ASSUME Onward, NEW i \in Intent, Fenced(i), Given(i), Rests(i, roles, tabs)
    PROVE  Outdated(i, roles', tabs') <=> ~Rests(i, roles', tabs')
  <1>1. CASE i.kind = "claim"
    <2>1. i \in ClaimIntent
      BY <1>1 DEF Intent, NoIntent, MuteIntent, None
    <2>2. i.expected \in Nat /\ i.expected <= next_owner_generation
      BY <1>1, <2>1 DEF ClaimIntent, Given
    <2>3. i.role \in DOMAIN roles /\ roles[i.role].generation = i.expected
      BY <1>1 DEF Rests
    <2>4. Owner(roles, i.role) = {<<roles[i.role].tab, roles[i.role].generation>>}
      BY <2>3 DEF Owner
    <2>5. CASE i.role \in DOMAIN roles' /\ roles'[i.role].generation = i.expected
      <3>1. roles'[i.role].tab = roles[i.role].tab
        BY <2>2, <2>5 DEF Onward
      <3>2. Owner(roles', i.role) = Owner(roles, i.role)
        BY <2>3, <2>5, <3>1 DEF Owner
      <3> QED
        BY <1>1, <2>5, <3>2 DEF Outdated, Rests
    <2>6. CASE ~(i.role \in DOMAIN roles' /\ roles'[i.role].generation = i.expected)
      <3>1. Owner(roles', i.role) # Owner(roles, i.role)
        <4>1. CASE i.role \notin DOMAIN roles'
          BY <2>4, <4>1 DEF Owner
        <4>2. CASE i.role \in DOMAIN roles'
          <5>1. Owner(roles', i.role) = {<<roles'[i.role].tab, roles'[i.role].generation>>}
            BY <4>2 DEF Owner
          <5>2. <<roles'[i.role].tab, roles'[i.role].generation>>
                   # <<roles[i.role].tab, roles[i.role].generation>>
            BY <2>3, <2>6, <4>2
          <5> QED
            BY <2>4, <5>1, <5>2
        <4> QED
          BY <4>1, <4>2
      <3> QED
        BY <1>1, <2>6, <3>1 DEF Outdated, Rests
    <2> QED
      BY <2>5, <2>6
  <1>2. CASE i.kind = "mute"
    BY <1>2 DEF Outdated, Rests
  <1> QED
    BY <1>1, <1>2 DEF Rests

\* The one field of an intent that other callers' steps change.
LEMMA OutrunIntent ==
    ASSUME NEW i \in Intent, i.status = "open"
    PROVE  LET j == [i EXCEPT !.outrun = TRUE]
           IN  /\ j \in Intent /\ j.status = "open" /\ j.outrun
               /\ Fenced(j) <=> Fenced(i)
               /\ Given(j)' <=> Given(i)'
               /\ Rests(j, roles', tabs') <=> Rests(i, roles', tabs')
  <1> DEFINE j == [i EXCEPT !.outrun = TRUE]
  <1>1. CASE i \in ClaimIntent
    <2>1. /\ j \in ClaimIntent /\ j.kind = i.kind /\ j.role = i.role /\ j.expected = i.expected
          /\ j.status = i.status /\ j.outrun /\ i.kind = "claim"
      BY <1>1 DEF ClaimIntent
    <2> HIDE DEF j
    <2>2. j \in Intent
      BY <2>1 DEF Intent
    <2>3. (Fenced(j) <=> Fenced(i)) /\ (Given(j)' <=> Given(i)')
          /\ (Rests(j, roles', tabs') <=> Rests(i, roles', tabs'))
      BY <2>1 DEF Fenced, Given, Rests
    <2> QED
      BY <2>1, <2>2, <2>3 DEF j
  <1>2. CASE i \in MuteIntent
    <2>1. /\ j \in MuteIntent /\ j.kind = i.kind /\ j.tab = i.tab /\ j.attempt = i.attempt
          /\ j.fences = i.fences /\ j.status = i.status /\ j.outrun /\ i.kind = "mute"
      BY <1>2 DEF MuteIntent
    <2> HIDE DEF j
    <2>2. j \in Intent
      BY <2>1 DEF Intent
    <2>3. (Fenced(j) <=> Fenced(i)) /\ (Given(j)' <=> Given(i)')
          /\ (Rests(j, roles', tabs') <=> Rests(i, roles', tabs'))
      BY <2>1 DEF Fenced, Given, Rests
    <2> QED
      BY <2>1, <2>2, <2>3 DEF j
  <1> QED
    BY <1>1, <1>2 DEF Intent, NoIntent, None

\* The numbers an intent names stay given out.
LEMMA GivenStays ==
    ASSUME Onward, NEW i \in Intent, Given(i)
    PROVE  Given(i)'
  <1>1. CASE i \in ClaimIntent
    BY <1>1 DEF ClaimIntent, Given, Onward
  <1>2. CASE i \in MuteIntent
    <2>1. i.attempt \in Nat /\ i.kind = "mute" /\ \A f \in i.fences : f[2] \in Nat
      BY <1>2 DEF MuteIntent
    <2> QED
      BY <2>1 DEF Given, Onward
  <1>3. CASE i = NoIntent
    BY <1>3 DEF NoIntent, None, Given
  <1> QED
    BY <1>1, <1>2, <1>3 DEF Intent

\* What a step does to the intent of a caller that does not take it.
OutrunOne(i, rs, ts) ==
    IF i.status = "open" /\ Outdated(i, rs, ts) THEN [i EXCEPT !.outrun = TRUE] ELSE i

LEMMA OutrunKeepsIntent ==
    ASSUME Onward, NEW i, i \in Intent, Tracked(i), NeverLate(i),
           NEW j, j = OutrunOne(i, roles', tabs')
    PROVE  j \in Intent /\ Tracked(j)' /\ NeverLate(j)
  <1>1. CASE i.status = "open" /\ Outdated(i, roles', tabs')
    <2>1. j = [i EXCEPT !.outrun = TRUE]
      BY <1>1 DEF OutrunOne
    <2>2. /\ j \in Intent /\ j.status = "open" /\ j.outrun
          /\ Fenced(j) <=> Fenced(i)
          /\ Given(j)' <=> Given(i)'
          /\ Rests(j, roles', tabs') <=> Rests(i, roles', tabs')
      BY <1>1, <2>1, OutrunIntent
    <2>3. ASSUME Fenced(i) PROVE Given(i)' /\ ~Rests(i, roles', tabs')
      <3>1. Given(i)
        BY <1>1, <2>3 DEF Tracked
      <3> QED
        BY <1>1, <2>3, <3>1, GivenStays, LostStaysLost, OutdatedIsLost
    <2>4. Tracked(j)'
      BY <2>2, <2>3 DEF Tracked, Fenced
    <2>5. NeverLate(j)
      BY <2>2 DEF NeverLate
    <2> QED
      BY <2>2, <2>4, <2>5
  <1>2. CASE ~(i.status = "open" /\ Outdated(i, roles', tabs'))
    <2>1. j = i
      BY <1>2 DEF OutrunOne
    <2>2. ASSUME i.status = "open", Fenced(i)
          PROVE  Given(i)' /\ (i.outrun <=> ~Rests(i, roles', tabs'))
      <3>1. Given(i) /\ (i.outrun <=> ~Rests(i, roles, tabs))
        BY <2>2 DEF Tracked
      <3> QED
        BY <1>2, <2>2, <3>1, GivenStays, LostStaysLost, OutdatedIsLost
    <2>3. Tracked(i)'
      BY <2>2 DEF Tracked, Fenced
    <2> QED
      BY <2>1, <2>3
  <1> QED
    BY <1>1, <1>2

\* The launch attempts of the tabs that a step leaves have been given out.
LEMMA OnwardKeepsAttempts ==
    ASSUME Inv, Onward, AttemptsCounted
    PROVE  AttemptsCounted'
  <1>1. \A t \in DOMAIN tabs : tabs[t].attempt \in Nat
    BY InvFacts DEF TabsTyped, TabRecord
  <1> QED
    BY <1>1 DEF Onward, AttemptsCounted

\* A command that no intent asked for.
LEMMA LeavesKeepsIntents ==
    ASSUME Inv, IntentsKept, Onward, intents' = Outrun(roles', tabs')
    PROVE  IntentsKept'
  <1>1. DOMAIN intents' = Callers
    BY DEF Outrun
  <1>2. ASSUME NEW c \in Callers
        PROVE  intents'[c] \in Intent /\ Tracked(intents[c])' /\ NeverLate(intents[c])'
    <2>1. intents'[c] = OutrunOne(intents[c], roles', tabs')
      BY DEF Outrun, OutrunOne
    <2>2. intents[c] \in Intent /\ Tracked(intents[c]) /\ NeverLate(intents[c])
      BY DEF IntentsKept, IntentKept
    <2> QED
      BY <2>1, <2>2, OutrunKeepsIntent DEF Tracked, NeverLate, Fenced, Given, Rests
  <1> QED
    BY <1>1, <1>2, OnwardKeepsAttempts DEF IntentsKept, IntentKept

\* The command of caller c, whose intent was not overtaken.
LEMMA CommitKeepsIntents ==
    ASSUME Inv, IntentsKept, Onward, NEW c \in Callers,
           intents[c].kind \in {"claim", "mute"}, Fenced(intents[c]) => ~intents[c].outrun,
           intents' = [Outrun(roles', tabs') EXCEPT
                          ![c] = [intents[c] EXCEPT !.status = "applied"]]
    PROVE  IntentsKept'
  <1> DEFINE i == intents[c]
             j == [i EXCEPT !.status = "applied"]
  <1>1. /\ DOMAIN intents' = Callers
        /\ intents'[c] = j
        /\ \A d \in Callers : d # c => intents'[d] = OutrunOne(intents[d], roles', tabs')
    BY DEF Outrun, OutrunOne
  <1>2. i \in Intent
    BY DEF IntentsKept, IntentKept
  <1>3. /\ j \in Intent /\ j.status = "applied" /\ j.outrun = i.outrun
        /\ j.kind = i.kind /\ (j.kind = "claim" => j.expected = i.expected)
    <2> HIDE DEF i
    <2>1. i \in ClaimIntent \cup MuteIntent
      BY <1>2 DEF Intent, NoIntent, None, i
    <2>2. CASE i \in ClaimIntent
      <3>1. j \in ClaimIntent /\ j.status = "applied" /\ j.outrun = i.outrun
            /\ j.kind = i.kind /\ j.expected = i.expected
        BY <2>2 DEF ClaimIntent, Statuses
      <3> QED
        BY <3>1 DEF Intent
    <2>3. CASE i \in MuteIntent
      <3>1. j \in MuteIntent /\ j.status = "applied" /\ j.outrun = i.outrun
            /\ j.kind = i.kind /\ i.kind = "mute"
        BY <2>3 DEF MuteIntent, Statuses
      <3> QED
        BY <3>1 DEF Intent
    <2> QED
      BY <2>1, <2>2, <2>3
  <1> HIDE DEF j
  <1>4. j \in Intent /\ j.status = "applied" /\ NeverLate(j)
    BY <1>3 DEF NeverLate, Fenced
  <1>5. ASSUME NEW d \in Callers
        PROVE  intents'[d] \in Intent /\ Tracked(intents[d])' /\ NeverLate(intents[d])'
    <2>1. CASE d = c
      BY <1>1, <1>4, <2>1 DEF Tracked, NeverLate, Fenced, Given, Rests
    <2>2. CASE d # c
      <3>1. intents[d] \in Intent /\ Tracked(intents[d]) /\ NeverLate(intents[d])
        BY DEF IntentsKept, IntentKept
      <3> QED
        BY <1>1, <2>2, <3>1, OutrunKeepsIntent DEF Tracked, NeverLate, Fenced, Given, Rests
    <2> QED
      BY <2>1, <2>2
  <1> QED
    BY <1>1, <1>5, OnwardKeepsAttempts DEF IntentsKept, IntentKept

\* A caller that plans, or is refused: nobody else notices.
LEMMA DecisionKeepsIntents ==
    ASSUME IntentsKept, NEW c \in Callers, NEW i \in Intent, Tracked(i), NeverLate(i),
           intents' = [intents EXCEPT ![c] = i],
           UNCHANGED <<next_owner_generation, roles, tabs, attempts>>
    PROVE  IntentsKept'
  <1>1. /\ DOMAIN intents' = Callers
        /\ intents'[c] = i
        /\ \A d \in Callers : d # c => intents'[d] = intents[d]
    BY DEF IntentsKept
  <1>2. ASSUME NEW d \in Callers
        PROVE  intents'[d] \in Intent /\ Tracked(intents[d])' /\ NeverLate(intents[d])'
    <2>1. CASE d = c
      BY <1>1, <2>1 DEF Tracked, NeverLate, Fenced, Given, Rests
    <2>2. CASE d # c
      <3>1. intents[d] \in Intent /\ Tracked(intents[d]) /\ NeverLate(intents[d])
        BY DEF IntentsKept, IntentKept
      <3> QED
        BY <1>1, <2>2, <3>1 DEF Tracked, NeverLate, Fenced, Given, Rests
    <2> QED
      BY <2>1, <2>2
  <1> QED
    BY <1>1, <1>2 DEF IntentsKept, IntentKept, AttemptsCounted

LEMMA PlanClaimKeepsIntents ==
    ASSUME Inv, IntentsKept, NEW c \in Callers, NEW r \in Roles, NEW t \in TabIds, PlanClaim(c, r, t)
    PROVE  IntentsKept'
  <1> DEFINE shown == tabs[t].slots[r].generation
             i == [kind |-> "claim", role |-> r, tab |-> t, expected |-> shown,
                   status |-> "open", outrun |-> FALSE]
  <1>1. /\ t \in DOMAIN tabs /\ r \in DOMAIN tabs[t].slots
        /\ intents' = [intents EXCEPT ![c] = i]
        /\ UNCHANGED <<next_owner_generation, roles, tabs, attempts>>
    BY DEF PlanClaim
  <1>2. tabs[t].slots[r] = SlotState(roles, t, r)
    BY <1>1 DEF Inv, Placed, SlotsFollowOwners
  <1>3. shown = IF r \in DOMAIN roles THEN roles[r].generation ELSE 0
    BY <1>2 DEF SlotState
  <1> HIDE DEF shown
  <1>4. /\ shown \in Nat
        /\ shown # 0 => r \in DOMAIN roles /\ roles[r].generation = shown
    BY <1>3, InvFacts DEF RolesTyped, RoleRecord
  <1>5. shown # 0 => shown <= next_owner_generation
    <2>1. r \in DOMAIN roles => roles[r].generation <= next_owner_generation
      BY DEF Inv, Counted
    <2> QED
      BY <1>4, <2>1
  <1>6. i \in Intent
    BY <1>4 DEF Intent, ClaimIntent, Statuses
  <1>7. Tracked(i) /\ NeverLate(i)
    BY <1>4, <1>5 DEF Tracked, NeverLate, Fenced, Given, Rests
  <1> HIDE DEF i
  <1> QED
    BY <1>1, <1>6, <1>7, DecisionKeepsIntents

LEMMA PlanMuteKeepsIntents ==
    ASSUME Inv, IntentsKept, NEW c \in Callers, NEW t \in TabIds, PlanMute(c, t)
    PROVE  IntentsKept'
  <1> DEFINE fences == Fences(roles, t)
             i == [kind |-> "mute", tab |-> t, window |-> tabs[t].window,
                   attempt |-> tabs[t].attempt, was |-> tabs[t].muted,
                   fences |-> fences, status |-> "open", outrun |-> FALSE]
  <1>1. /\ t \in DOMAIN tabs
        /\ intents' = [intents EXCEPT ![c] = i]
        /\ UNCHANGED <<next_owner_generation, roles, tabs, attempts>>
    BY DEF PlanMute
  <1>2. /\ tabs[t].window \in Windows /\ tabs[t].attempt \in Nat /\ tabs[t].muted \in BOOLEAN
        /\ tabs[t].attempt <= attempts
    BY <1>1, InvFacts DEF TabRecord, IntentsKept, AttemptsCounted
  <1>3. fences \subseteq Roles \X Nat /\ \A f \in fences : f[2] <= next_owner_generation
    <2> SUFFICES ASSUME NEW r \in DOMAIN roles
                 PROVE  /\ r \in Roles /\ roles[r].generation \in Nat
                        /\ roles[r].generation <= next_owner_generation
      BY DEF Fences
    <2> QED
      BY InvFacts DEF RolesTyped, RoleRecord, Inv, Counted
  <1>4. fences = Fences(roles, t)
    OBVIOUS
  <1> HIDE DEF fences
  <1>5. i \in Intent
    BY <1>2, <1>3 DEF Intent, MuteIntent, Statuses
  <1>6. Tracked(i) /\ NeverLate(i)
    BY <1>1, <1>2, <1>3, <1>4 DEF Tracked, NeverLate, Fenced, Given, Rests
  <1> HIDE DEF i
  <1> QED
    BY <1>1, <1>5, <1>6, DecisionKeepsIntents

LEMMA RefusedKeepsIntents ==
    ASSUME IntentsKept, NEW c \in Callers, Refused(c)
    PROVE  IntentsKept'
  <1> DEFINE i == intents[c]
             j == [i EXCEPT !.status = "refused"]
  <1>1. /\ i.status = "open"
        /\ intents' = [intents EXCEPT ![c] = j]
        /\ UNCHANGED <<next_owner_generation, roles, tabs, attempts>>
    BY DEF Refused
  <1>2. i \in Intent
    BY DEF IntentsKept, IntentKept
  <1> HIDE DEF i
  <1>3. j \in Intent /\ j.status = "refused"
    <2>1. i \in ClaimIntent \cup MuteIntent
      BY <1>1, <1>2 DEF Intent, NoIntent, None
    <2>2. CASE i \in ClaimIntent
      <3>1. j \in ClaimIntent /\ j.status = "refused"
        BY <2>2 DEF ClaimIntent, Statuses
      <3> QED
        BY <3>1 DEF Intent
    <2>3. CASE i \in MuteIntent
      <3>1. j \in MuteIntent /\ j.status = "refused"
        BY <2>3 DEF MuteIntent, Statuses
      <3> QED
        BY <3>1 DEF Intent
    <2> QED
      BY <2>1, <2>2, <2>3
  <1> HIDE DEF j
  <1>4. Tracked(j) /\ NeverLate(j)
    BY <1>3 DEF Tracked, NeverLate
  <1> QED
    BY <1>1, <1>3, <1>4, DecisionKeepsIntents

\* claim_role_slot: the expected owner has to be there, so that it was there all
\* along; a takeover that was overtaken does not get here.
LEMMA ClaimRoleSlotKeepsIntents ==
    ASSUME Inv, IntentsKept, NEW c \in Callers, ClaimRoleSlot(c)
    PROVE  IntentsKept'
  <1>1. /\ intents[c].kind = "claim" /\ intents[c].status = "open"
        /\ Claimable(intents[c])
        /\ intents' = [Outrun(roles', tabs') EXCEPT
                          ![c] = [intents[c] EXCEPT !.status = "applied"]]
    BY DEF ClaimRoleSlot, CommittedBy
  <1>2. Fenced(intents[c]) => Rests(intents[c], roles, tabs)
    BY <1>1 DEF Fenced, Rests, Claimable
  <1>3. Tracked(intents[c]) /\ intents[c] \in Intent
    BY DEF IntentsKept, IntentKept
  <1>4. Fenced(intents[c]) => ~intents[c].outrun
    BY <1>1, <1>2, <1>3 DEF Tracked
  <1> QED
    BY <1>1, <1>4, ClaimRoleSlotIsOnward, CommitKeepsIntents

\* set_tab_audio_muted: the launch and all the owners have to be there.
LEMMA SetTabAudioMutedKeepsIntents ==
    ASSUME Inv, IntentsKept, NEW c \in Callers, SetTabAudioMuted(c)
    PROVE  IntentsKept'
  <1>1. /\ intents[c].kind = "mute" /\ intents[c].status = "open"
        /\ Mutable(intents[c])
        /\ intents' = [Outrun(roles', tabs') EXCEPT
                          ![c] = [intents[c] EXCEPT !.status = "applied"]]
    BY DEF SetTabAudioMuted, CommittedBy
  <1>2. Rests(intents[c], roles, tabs)
    BY <1>1 DEF Rests, Mutable, MutableOnceOwned
  <1>3. Tracked(intents[c]) /\ intents[c] \in Intent
    BY DEF IntentsKept, IntentKept
  <1>4. Fenced(intents[c]) => ~intents[c].outrun
    BY <1>1, <1>2, <1>3 DEF Tracked
  <1> QED
    BY <1>1, <1>4, SetTabAudioMutedIsOnward, CommitKeepsIntents

LEMMA InitIntents == Init => IntentsKept
  <1> SUFFICES ASSUME Init PROVE IntentsKept
    OBVIOUS
  <1>1. DOMAIN intents = Callers /\ \A c \in Callers : intents[c] = NoIntent
    BY DEF Init, NoIntent
  <1>2. NoIntent \in Intent /\ NoIntent.status = None
    BY DEF Intent, NoIntent
  <1>3. \A c \in Callers : IntentKept(intents[c])
    BY <1>1, <1>2 DEF IntentKept, Tracked, NeverLate, None
  <1>4. AttemptsCounted
    BY DEF Init, AttemptsCounted
  <1> QED
    BY <1>1, <1>3, <1>4 DEF IntentsKept

LEMMA NextKeepsIntents == Inv /\ IntentsKept /\ [Next]_vars => IntentsKept'
  <1> SUFFICES ASSUME Inv, IntentsKept, [Next]_vars PROVE IntentsKept'
    OBVIOUS
  <1>1. ASSUME NEW t \in TabIds, NEW s \in Sources, NEW w \in Windows, CreateTab(t, s, w)
        PROVE  IntentsKept'
    BY <1>1, CreateTabIsOnward, LeavesKeepsIntents DEF CreateTab, Updates, Leaves
  <1>2. ASSUME NEW T \in SUBSET DOMAIN tabs, CloseTabs(T) PROVE IntentsKept'
    BY <1>2, CloseTabsIsOnward, LeavesKeepsIntents DEF CloseTabs, Updates, Leaves
  <1>3. ASSUME NEW r \in Roles, NEW to \in Lifecycle, AdvanceRole(r, to) PROVE IntentsKept'
    BY <1>3, AdvanceRoleIsOnward, LeavesKeepsIntents DEF AdvanceRole, Updates, Leaves
  <1>4. ASSUME NEW r \in Roles, NEW t \in TabIds, AdmitRole(r, t) PROVE IntentsKept'
    BY <1>4, AdmitRoleIsOnward, LeavesKeepsIntents DEF AdmitRole, Updates, Leaves
  <1>5. ASSUME NEW r \in Roles, ReleaseRole(r) PROVE IntentsKept'
    BY <1>5, ReleaseRoleIsOnward, LeavesKeepsIntents DEF ReleaseRole, Updates, Leaves
  <1>6. ASSUME NEW t \in TabIds, NEW w \in Windows, MoveTab(t, w) PROVE IntentsKept'
    BY <1>6, MoveTabIsOnward, LeavesKeepsIntents DEF MoveTab, Leaves
  <1>7. CASE UNCHANGED vars
    BY <1>7 DEF vars, IntentsKept, IntentKept, Tracked, NeverLate, Fenced, Given, Rests, AttemptsCounted
  <1> QED
    BY <1>1, <1>2, <1>3, <1>4, <1>5, <1>6, <1>7, ClaimRoleSlotKeepsIntents,
       SetTabAudioMutedKeepsIntents, RefusedKeepsIntents, PlanClaimKeepsIntents,
       PlanMuteKeepsIntents
       DEF Next, Lifecycle

\* claim_role_slot, set_tab_audio_muted: what is applied was decided on owners
\* that have not changed since, for any number of callers and of owners.
THEOREM NoStaleIntentIsApplied == Spec => []StaleIntentsAreRefused
  <1>1. IntentsKept => StaleIntentsAreRefused
    BY DEF IntentsKept, IntentKept, NeverLate, Fenced, StaleIntentsAreRefused
  <1> QED
    BY <1>1, InvHolds, InitIntents, NextKeepsIntents, PTL DEF Spec

=============================================================================
