--------------------------- MODULE MCChatServer ---------------------------
(* Three sessions on two contexts, so that two of them share a thread.     *)
EXTENDS ChatServer
MCMaxSessions == 3
MCSize == 2
=============================================================================
