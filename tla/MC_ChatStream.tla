---------------------------- MODULE MC_ChatStream ----------------------------
(* A chat mounted twice, once or side by side, over lost sockets and a restart. *)
EXTENDS ChatStream
=============================================================================
