------------------------ MODULE MCStaleInstance ------------------------
(* The instance of MCHandoff, with surviving Python instances. *)
EXTENDS StaleInstance, MCHandoff
=============================================================================
