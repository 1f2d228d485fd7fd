------------------------ MODULE MCHandoffView ------------------------
(* The instance of MCHandoff, with the rooms' contents caches. *)
EXTENDS HandoffView, MCHandoff
=============================================================================
