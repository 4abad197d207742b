--------------------------- MODULE MCRoleOwnership ---------------------------
\* Two roles: a is launched on its own, and both are in a workspace, whose tab
\* takes a over from the other one and gives it back.
EXTENDS RoleOwnership, TLC

SoloAndWorkspace == [solo |-> {"a"}, workspace |-> {"a", "b"}]
SourceNames == DOMAIN SoloAndWorkspace

Names == Permutations(TabIds) \cup Permutations(Windows)
=============================================================================
