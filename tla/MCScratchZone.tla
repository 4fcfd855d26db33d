--------------------------- MODULE MCScratchZone ----------------------------
(* A zone whose end is not aligned, and sizes that are not either.         *)
EXTENDS ScratchZone
=============================================================================
