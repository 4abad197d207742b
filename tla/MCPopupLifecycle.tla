------------------------- MODULE MCPopupLifecycle --------------------------
(* Two popups of one owner, and the calls that may race them. *)
EXTENDS PopupLifecycle

MCPopups == {"p1", "p2"}
MCCalls == {"retire", "move1", "move2", "reload", "zoom", "dispose"}
MCKindOf ==
    [c \in MCCalls |-> CASE c = "retire" -> "Retire" [] c \in {"move1", "move2"} -> "Move"
                         [] c = "reload" -> "Reload" [] c = "zoom" -> "Zoom"
                         [] OTHER -> "Dispose"]
MCOwnerOf == [x \in MCPopups \cup MCCalls |-> "owner"]
=============================================================================
