-------------------------- MODULE MC_TerminalHost --------------------------
(* Two terminals, three chunks, and a high mark of one chunk. *)
EXTENDS TerminalHost
CONSTANTS a, b
MCTerminals == {a, b}
=============================================================================
