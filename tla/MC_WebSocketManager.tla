------------------------ MODULE MC_WebSocketManager ------------------------
(***************************************************************************)
(* Small instances of WebSocketManager.                                    *)
(***************************************************************************)
EXTENDS WebSocketManager
=============================================================================
