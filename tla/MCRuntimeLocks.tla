--------------------------- MODULE MCRuntimeLocks ---------------------------
(***************************************************************************)
(* Two windows: one with a tab of the first role, one with tabs of both.   *)
(* The appearance of workspaces is changed while a window is closed by its *)
(* user; nothing else goes on.                                             *)
(***************************************************************************)
EXTENDS RuntimeLocks

MCRolesIn == [w \in Windows |-> IF w = "w1" THEN {"r1"} ELSE {"r1", "r2"}]

Changes == {ProjectAppearance(w) : w \in Windows}
Closes == {HostEvent(w) : w \in Windows}

\* What begins is one of the flows in F.
BeginsOne(F) == \A o \in Operations : flow[o] = <<>> => flow'[o] \in F \cup {<<>>}

WhileClosing == Init /\ [][Next /\ BeginsOne(Changes \cup Closes)]_vars
=============================================================================
