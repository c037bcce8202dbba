----------------------------- MODULE MCEmServer -----------------------------
(* EmServer with its constants given by the configurations.                *)
EXTENDS EmServer
=============================================================================
