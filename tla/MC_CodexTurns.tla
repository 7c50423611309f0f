--------------------------- MODULE MC_CodexTurns ---------------------------
(* Two turns, and one line that does not parse or one death of Codex. *)
EXTENDS CodexTurns
=============================================================================
