------------------------ MODULE MC_ClientConnection ------------------------
(* Small instance of ClientConnection: one socket more than faults, so     *)
(* that the last attempt can succeed.                                      *)
EXTENDS ClientConnection

const_Sockets == 1 .. 4
=============================================================================
