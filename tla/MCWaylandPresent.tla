--------------------------- MODULE MCWaylandPresent ---------------------------
(* Every menu belongs to window "a". *)
EXTENDS WaylandPresent, TLC

MCAnchor == [p \in Popups |-> "a"]
=============================================================================
