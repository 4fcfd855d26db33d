---------------------------- MODULE MCSlotStore ----------------------------
(* Bounds for SlotStore: four slots, two distinguishable items.            *)
EXTENDS SlotStore
=============================================================================
