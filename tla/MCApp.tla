------------------------------- MODULE MCApp -------------------------------
(* Bounds for App: two documents, so that closing one moves the other, one *)
(* path that both can take, and six inputs.                                *)
EXTENDS App
=============================================================================
