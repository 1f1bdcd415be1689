---------------------------- MODULE MCWaylandSeat ----------------------------
(* A window and a menu of one client, and a window of another. *)
EXTENDS WaylandSeat, TLC

MCOwner == [a |-> "A", m |-> "A", b |-> "B"]
MCSymmetry == Permutations(Fingers)
=============================================================================
