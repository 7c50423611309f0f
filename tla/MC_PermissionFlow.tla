------------------------- MODULE MC_PermissionFlow -------------------------
(* Three prompts, three crashes, and a log that fails and comes back. *)
EXTENDS PermissionFlow
=============================================================================
