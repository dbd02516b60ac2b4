------------------------------- MODULE MCLRU -------------------------------
(* Small instance of LRU: more keys than room, capacities out of range. *)
EXTENDS LRU

MCCapacities == {-1, 0, 1, 2, 3}
=============================================================================
