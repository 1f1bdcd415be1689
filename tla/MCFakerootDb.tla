---------------------------- MODULE MCFakerootDb ----------------------------
(* Every file hashes to the last slot: each probe collides and wraps. *)
EXTENDS FakerootDb, TLC

MCHash == [f \in Files |-> NSlots - 1]
MCSymmetry == Permutations(Files) \cup Permutations(Forked)
=============================================================================
