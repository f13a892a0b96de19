----------------------------- MODULE MCChatServer -----------------------------
(***************************************************************************)
(* Connections are interchangeable when all or none of them may be slow,   *)
(* and so are SOCKET values.  One command in two pieces is enough for a    *)
(* text to be cut and for a command to come out of two texts joined.       *)
(***************************************************************************)
EXTENDS ChatServerDelivery, ChatServerPool, TLC

Symmetry == Permutations(Clients) \cup Permutations(Handles)

LidarPieces == {"--lidar", "stop"}

LidarStop == <<"--lidar", "stop">>

LidarTexts == {LidarStop, <<"stop">>}

LidarCommands == {LidarStop, <<"stop">>}

Talk == {<<"say">>}
===============================================================================
