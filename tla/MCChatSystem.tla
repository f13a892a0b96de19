----------------------------- MODULE MCChatSystem -----------------------------
(***************************************************************************)
(* The client programs under the bounds and definitions of MCChatServer.   *)
(***************************************************************************)
EXTENDS ChatSystem, MCChatServer
===============================================================================
