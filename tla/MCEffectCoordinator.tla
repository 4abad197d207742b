------------------------ MODULE MCEffectCoordinator ------------------------
(* A small instance of EffectCoordinator. *)
EXTENDS EffectCoordinator

\* Effects on one window, on two, on everything, and three that clear the data
\* of a role; the id of one of these is also that of another payload.
Clearing == {"clear", "wipe", "erase"}
MCRequests == {"left", "both", "app"} \cup Clearing
MCEffectOf == [r \in MCRequests |-> IF r = "clear" THEN "app" ELSE r]
MCScopesOf == [r \in MCRequests |-> CASE r = "left" -> {"wl"} [] r = "both" -> {"wl", "wr"}
                                      [] r = "app" -> {"app"} [] OTHER -> {"role"}]

\* Three effects on overlapping scopes are queued, passed and cancelled in one
\* coordinator.
Lanes == [requests |-> {"left", "both", "app"}, deliveries |-> 3, coordinators |-> 1,
          windows |-> {}]

\* Two deliveries, of the same effect or not, in a coordinator and the next one, while
\* a launch waits for a window.
Ledger == [requests |-> {"left", "app", "clear"}, deliveries |-> 2, coordinators |-> 2,
           windows |-> {"wl"}]

\* One more destructive effect than the process remembers.
Full == [requests |-> Clearing, deliveries |-> 3, coordinators |-> 1, windows |-> {}]

All == {Lanes, Ledger, Full}
One == {[requests |-> {"left"}, deliveries |-> 1, coordinators |-> 1, windows |-> {}]}
=============================================================================
