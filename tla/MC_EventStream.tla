--------------------------- MODULE MC_EventStream ---------------------------
(* Small instance of EventStream: three events, four server starts and a   *)
(* lost socket.                                                            *)
EXTENDS EventStream
=============================================================================
