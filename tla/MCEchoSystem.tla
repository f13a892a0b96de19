----------------------------- MODULE MCEchoSystem -----------------------------
(***************************************************************************)
(* Instances of the echo server with its clients.                          *)
(***************************************************************************)
EXTENDS EchoSystem
===============================================================================
