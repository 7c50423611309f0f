-------------------------- MODULE MC_OutboxService --------------------------
(* Two overlapping calls over three mutations. *)
EXTENDS OutboxService

CONSTANTS a, b

const_Calls == {a, b}
=============================================================================
